---------------------------- MODULE Spec2Model ----------------------------
(***************************************************************************)
(* mailcleaner: rule matching, the mailbox client, the move saga, the      *)
(* batch engine, the fetch producer/consumer and the live preview          *)
(* streamer, modelled from the Go sources.                                 *)
(*                                                                         *)
(* Strings that the code inspects character by character (senders,         *)
(* patterns, subjects, size thresholds) are sequences of one-character     *)
(* strings; folder names, flags and action types, which the code only      *)
(* compares for equality, are TLA+ strings.                                *)
(***************************************************************************)
EXTENDS Integers, Sequences, FiniteSets, TLC

VARIABLES
    mailboxes,   \* MemoryUser.mailboxes: folder name -> [messages, uidNext]
    copyMode,    \* "mailbox": COPY is dispatched to MemoryMailbox.CopyMessages;
                 \* "user": COPY is orchestrated at the user level (spec 4.6)
    faultsLeft,  \* how many more commands the network may fail
    rulesTable,  \* the rows of the rules table of the store, in insertion order
    fetch,       \* the fetch in progress: its queue, its producer and its consumer
    conn,        \* the live-preview connection: its read loop, its pipeline, its two ends
    threads,     \* goroutines calling into the test server: operation, position, locals
    probe,       \* one TestAccountConnection call: its goroutine, its channel, its timer
    last         \* the last client operation: its input, the session it ran, its result

vars == <<mailboxes, copyMode, faultsLeft, rulesTable, fetch, conn, threads, probe, last>>

-----------------------------------------------------------------------------
(* Bounds *)

MaxUid == 2      \* no mailbox is given a UID above this
MaxFaults == 1   \* commands the network may fail in one behaviour
MaxFlags == 2    \* no message is given a longer flag list than this

-----------------------------------------------------------------------------
(* Strings *)

ToLowerChar(ch) ==
    CASE ch = "N" -> "n"
      [] ch = "F" -> "f"
      [] ch = "M" -> "m"
      [] ch = "K" -> "k"
      [] ch = "G" -> "g"
      [] ch = "B" -> "b"
      [] OTHER -> ch

ToUpperChar(ch) ==
    CASE ch = "n" -> "N"
      [] ch = "f" -> "F"
      [] ch = "m" -> "M"
      [] ch = "k" -> "K"
      [] ch = "g" -> "G"
      [] ch = "b" -> "B"
      [] OTHER -> ch

ToLower(s) == [i \in 1..Len(s) |-> ToLowerChar(s[i])]

ToUpper(s) == [i \in 1..Len(s) |-> ToUpperChar(s[i])]

HasPrefixAt(s, sub, i) ==
    /\ i + Len(sub) - 1 <= Len(s)
    /\ \A k \in 1..Len(sub) : s[i + k - 1] = sub[k]

\* strings.Contains: the empty string is contained in every string
Contains(s, sub) == \E i \in 1..(Len(s) + 1) : HasPrefixAt(s, sub, i)

\* strings.EqualFold on the letters of the model
EqualFold(s, t) == ToLower(s) = ToLower(t)

\* strings.LastIndex, 1-based; 0 when ch does not occur (Go: -1)
LastIndex(s, ch) ==
    IF \E i \in 1..Len(s) : s[i] = ch
    THEN CHOOSE i \in 1..Len(s) : s[i] = ch /\ \A j \in (i + 1)..Len(s) : s[j] # ch
    ELSE 0

HasSuffix(s, suf) ==
    Len(suf) <= Len(s) /\ SubSeq(s, Len(s) - Len(suf) + 1, Len(s)) = suf

TrimSuffix(s, suf) ==
    IF HasSuffix(s, suf) THEN SubSeq(s, 1, Len(s) - Len(suf)) ELSE s

-----------------------------------------------------------------------------
(* The mailbox state model: src/testserver/server.go *)

DeletedFlag == "\\Deleted"
SeenFlag == "\\Seen"
FlaggedFlag == "\\Flagged"

SeqToSet(q) == {q[i] : i \in 1..Len(q)}

RECURSIVE FilterSeq(_, _)
\* the elements of q whose index is in keep, in order
FilterSeq(q, keep) ==
    IF q = <<>> THEN <<>>
    ELSE LET rest == FilterSeq(SubSeq(q, 1, Len(q) - 1), keep)
         IN  IF Len(q) \in keep THEN Append(rest, q[Len(q)]) ELSE rest

\* &MemoryMailbox{messages: []*MemoryMessage{}, uidNext: 1}
NewMailbox == [messages |-> <<>>, uidNext |-> 1]

\* MemoryBackend.AddMessage's message: uid from the counter, no flags
NewMessage(uid, from, subject, date) ==
    [uid |-> uid, from |-> from, subject |-> subject, date |-> date,
     flags |-> <<>>, deleted |-> FALSE]

\* MemoryBackend.AddMessage: creates the folder when missing, appends, bumps uidNext
BackendAddMessage(boxes, folder, from, subject, date) ==
    LET mbox == IF folder \in DOMAIN boxes THEN boxes[folder] ELSE NewMailbox
        msg  == NewMessage(mbox.uidNext, from, subject, date)
        new  == [messages |-> Append(mbox.messages, msg), uidNext |-> mbox.uidNext + 1]
    IN  [f \in DOMAIN boxes \cup {folder} |-> IF f = folder THEN new ELSE boxes[f]]

\* MemoryBackend.CreateMailbox: no effect when the folder exists
BackendCreateMailbox(boxes, name) ==
    IF name \in DOMAIN boxes THEN boxes
    ELSE [f \in DOMAIN boxes \cup {name} |-> IF f = name THEN NewMailbox ELSE boxes[f]]

\* MemoryBackend.GetMessageCount: the undeleted messages; 0 for a missing folder
GetMessageCount(boxes, folder) ==
    IF folder \notin DOMAIN boxes THEN 0
    ELSE Cardinality({i \in 1..Len(boxes[folder].messages) :
                         ~boxes[folder].messages[i].deleted})

\* MemoryMailbox.Status: Messages counts every entry of the list
StatusMessages(mbox) == Len(mbox.messages)

\* the match of UpdateMessagesFlags and ListMessages: by UID, or by the index + 1
SeqSetMatch(mbox, i, uid, seqSet) ==
    IF uid THEN mbox.messages[i].uid \in seqSet ELSE i \in seqSet

RECURSIVE AddFlagsTo(_, _)
\* case imap.AddFlags: each flag is appended; the deleted token sets the marker
AddFlagsTo(msg, flags) ==
    IF flags = <<>> THEN msg
    ELSE AddFlagsTo([msg EXCEPT !.flags = Append(@, Head(flags)),
                                !.deleted = IF Head(flags) = DeletedFlag THEN TRUE ELSE @],
                    Tail(flags))

\* case imap.RemoveFlags: only the marker is cleared, the flag list is left alone
RemoveFlagsFrom(msg, flags) ==
    IF DeletedFlag \in SeqToSet(flags) THEN [msg EXCEPT !.deleted = FALSE] ELSE msg

\* case imap.SetFlags: the list is replaced and the marker recomputed
SetFlagsOf(msg, flags) ==
    [msg EXCEPT !.flags = flags, !.deleted = DeletedFlag \in SeqToSet(flags)]

\* MemoryMailbox.UpdateMessagesFlags
UpdateMessagesFlags(mbox, uid, seqSet, op, flags) ==
    [mbox EXCEPT !.messages =
        [i \in 1..Len(mbox.messages) |->
            IF SeqSetMatch(mbox, i, uid, seqSet)
            THEN CASE op = "AddFlags"    -> AddFlagsTo(mbox.messages[i], flags)
                   [] op = "RemoveFlags" -> RemoveFlagsFrom(mbox.messages[i], flags)
                   [] op = "SetFlags"    -> SetFlagsOf(mbox.messages[i], flags)
                   [] OTHER              -> mbox.messages[i]
            ELSE mbox.messages[i]]]

\* a mailbox expunged with its counter set back to the UIDs still in use
MailboxExpunge_ResetsCounter(mbox) ==
    [messages |-> FilterSeq(mbox.messages,
                     {i \in 1..Len(mbox.messages) : ~mbox.messages[i].deleted}),
     uidNext  |-> 1 + Cardinality({i \in 1..Len(mbox.messages) : ~mbox.messages[i].deleted})]

\* an expunge that goes by the deleted token in the flag list
MailboxExpunge_ByFlag(mbox) ==
    [mbox EXCEPT !.messages =
        FilterSeq(mbox.messages,
                  {i \in 1..Len(mbox.messages) :
                      DeletedFlag \notin SeqToSet(mbox.messages[i].flags)})]

\* MemoryMailbox.Expunge: keeps the messages whose marker is not set
MailboxExpunge(mbox) ==
    [mbox EXCEPT !.messages =
        FilterSeq(mbox.messages, {i \in 1..Len(mbox.messages) : ~mbox.messages[i].deleted})]

\* MemoryMailbox.CopyMessages: always "copy not implemented at mailbox level"
CopyMessages(boxes, src, uid, seqSet, destName) ==
    [boxes |-> boxes, err |-> TRUE]

RECURSIVE AppendCopies(_, _)
\* the copies appended to a destination, each under the destination's next UID
AppendCopies(mbox, msgs) ==
    IF msgs = <<>> THEN mbox
    ELSE AppendCopies(
            [messages |-> Append(mbox.messages, [Head(msgs) EXCEPT !.uid = mbox.uidNext]),
             uidNext  |-> mbox.uidNext + 1],
            Tail(msgs))

\* copy orchestrated at the user level, on both folders at once (spec 4.2, 4.6, 5):
\* NotFoundError for a missing destination, else the matched messages are appended
\* to the destination with fresh UIDs; the source is not touched
UserCopy(boxes, src, uid, seqSet, destName) ==
    IF destName \notin DOMAIN boxes THEN [boxes |-> boxes, err |-> TRUE]
    ELSE LET m    == boxes[src]
             sel  == FilterSeq(m.messages,
                        {i \in 1..Len(m.messages) : SeqSetMatch(m, i, uid, seqSet)})
         IN  [boxes |-> [boxes EXCEPT ![destName] = AppendCopies(@, sel)],
              err   |-> FALSE]

\* parseAddress: the last '@' splits mailbox and host; nil for the empty string
parseAddress(email) ==
    IF email = <<>> THEN <<>>
    ELSE LET at == LastIndex(email, "@")
         IN  IF at # 0
             THEN << [MailboxName |-> SubSeq(email, 1, at - 1),
                      HostName    |-> SubSeq(email, at + 1, Len(email))] >>
             ELSE << [MailboxName |-> email, HostName |-> <<>>] >>

\* MemoryMessage.ToIMAP for the items envelope, flags and uid
ToIMAP(msg, seqNum) ==
    [Uid |-> msg.uid, SeqNum |-> seqNum,
     Envelope |-> [Subject |-> msg.subject, From |-> parseAddress(msg.from),
                   Date |-> msg.date],
     Flags |-> msg.flags]

\* MemoryMailbox.ListMessages: skips the soft-deleted, numbers by index + 1
ListMessages(mbox, uid, seqSet) ==
    LET keep == {i \in 1..Len(mbox.messages) :
                    ~mbox.messages[i].deleted /\ SeqSetMatch(mbox, i, uid, seqSet)}
    IN  FilterSeq([i \in 1..Len(mbox.messages) |-> ToIMAP(mbox.messages[i], i)], keep)

-----------------------------------------------------------------------------
(* One mailbox session: the commands the clients issue, answered by the     *)
(* state model.  A session value carries the mailboxes as the server holds  *)
(* them, the selected folder, the log of the commands issued so far and the *)
(* error of the last command.  faultAt = k makes the k-th command of the    *)
(* session fail in the network, with no effect on the server; 0: none.      *)

NoFolder == ""

\* v bound to a name, its value computed once: K(v)
Bind(v, K(_)) == CHOOSE r \in {K(x) : x \in {v}} : TRUE

NewSession(boxes, faultAt) ==
    [boxes |-> boxes, selected |-> NoFolder, readOnly |-> FALSE, open |-> TRUE,
     status |-> 0, fetched |-> <<>>, log |-> <<>>, faultAt |-> faultAt, err |-> FALSE]

Faulted(c) == Len(c.log) + 1 = c.faultAt

Reply(c, cmd, arg, ok) ==
    [c EXCEPT !.log = Append(@, [cmd |-> cmd, arg |-> arg, ok |-> ok]), !.err = ~ok]

\* conn.Select(name, readOnly): MemoryUser.GetMailbox, then MemoryMailbox.Status
ConnSelect(c, name, readOnly) ==
    IF Faulted(c) \/ name \notin DOMAIN c.boxes
    THEN Reply(c, "select", name, FALSE)
    ELSE [Reply(c, "select", name, TRUE) EXCEPT
             !.selected = name, !.readOnly = readOnly,
             !.status = StatusMessages(c.boxes[name])]

\* conn.UidCopy(seqSet, dest): refused with no folder selected
ConnUidCopy(c, seqSet, destFolder) ==
    IF Faulted(c) \/ c.selected = NoFolder
    THEN Reply(c, "copy", seqSet, FALSE)
    ELSE Bind(IF copyMode = "user"
              THEN UserCopy(c.boxes, c.selected, TRUE, seqSet, destFolder)
              ELSE CopyMessages(c.boxes, c.selected, TRUE, seqSet, destFolder),
              LAMBDA r : [Reply(c, "copy", seqSet, ~r.err) EXCEPT !.boxes = r.boxes])

\* conn.UidStore(seqSet, item, flags): refused with no folder selected and in a
\* folder opened read-only ("Expected to fail in read-only mode")
ConnUidStore(c, seqSet, op, flags) ==
    IF Faulted(c) \/ c.selected = NoFolder \/ c.readOnly
    THEN Reply(c, "store", seqSet, FALSE)
    ELSE [Reply(c, "store", seqSet, TRUE) EXCEPT
             !.boxes[c.selected] = UpdateMessagesFlags(@, TRUE, seqSet, op, flags)]

\* conn.Expunge(nil): refused with no folder selected and in a read-only folder
ConnExpunge(c) ==
    IF Faulted(c) \/ c.selected = NoFolder \/ c.readOnly
    THEN Reply(c, "expunge", {}, FALSE)
    ELSE [Reply(c, "expunge", {}, TRUE) EXCEPT
             !.boxes[c.selected] = MailboxExpunge(@)]

\* conn.Fetch(seqSet, items, ch) together with the drain of ch and the read of
\* done: the messages listed, or the error
ConnFetch(c, seqSet) ==
    IF Faulted(c) \/ c.selected = NoFolder
    THEN [Reply(c, "fetch", seqSet, FALSE) EXCEPT !.fetched = <<>>]
    ELSE [Reply(c, "fetch", seqSet, TRUE) EXCEPT
             !.fetched = ListMessages(c.boxes[c.selected], FALSE, seqSet)]

\* conn.Logout(); its error is dropped by every caller
ConnLogout(c) == [c EXCEPT !.open = FALSE]

\* the commands that change a mailbox
MutationCmds == {"copy", "store", "expunge", "create"}

Issued(c, cmd) == {i \in 1..Len(c.log) : c.log[i].cmd = cmd}
Failed(c, cmd) == {i \in Issued(c, cmd) : ~c.log[i].ok}
Succeeded(c, cmd) == {i \in Issued(c, cmd) : c.log[i].ok}

-----------------------------------------------------------------------------
(* The three moves *)

\* a MoveMessage that goes on after a failed copy
MoveMessage_IgnoresCopyError(c, uid, destFolder) ==
    Bind(ConnUidStore(ConnUidCopy(c, {uid}, destFolder), {uid}, "AddFlags", <<DeletedFlag>>),
         LAMBDA c2 : IF c2.err THEN c2 ELSE ConnExpunge(c2))

\* a MoveMessage that drops the error of the store and of the expunge
MoveMessage_SwallowsError(c, uid, destFolder) ==
    Bind(ConnUidCopy(c, {uid}, destFolder), LAMBDA c1 :
        IF c1.err THEN c1
        ELSE Bind(ConnUidStore(c1, {uid}, "AddFlags", <<DeletedFlag>>), LAMBDA c2 :
                 IF c2.err THEN [c2 EXCEPT !.err = FALSE]
                 ELSE [ConnExpunge(c2) EXCEPT !.err = FALSE]))

\* Client.MoveMessage (internal/imap, models client): copy, store \Deleted, expunge
MoveMessage(c, uid, destFolder) ==
    Bind(ConnUidCopy(c, {uid}, destFolder), LAMBDA c1 :
        IF c1.err THEN c1
        ELSE Bind(ConnUidStore(c1, {uid}, "AddFlags", <<DeletedFlag>>), LAMBDA c2 :
                 IF c2.err THEN c2 ELSE ConnExpunge(c2)))

\* Client.DeleteMessages (config client): nothing for no UIDs, else store \Deleted
DeleteMessages(c, uids) ==
    IF uids = <<>> THEN [c EXCEPT !.err = FALSE]
    ELSE ConnUidStore(c, SeqToSet(uids), "AddFlags", <<DeletedFlag>>)

\* Client.Expunge (config client)
Expunge(c) == ConnExpunge(c)

\* Client.MoveMessages (config client)
MoveMessages(c, uids, destFolder) ==
    IF uids = <<>> THEN [c EXCEPT !.err = FALSE]
    ELSE Bind(ConnUidCopy(c, SeqToSet(uids), destFolder), LAMBDA c1 :
             IF c1.err THEN c1
             ELSE Bind(DeleteMessages(c1, uids), LAMBDA c2 :
                      IF c2.err THEN c2 ELSE Expunge(c2)))

\* moveMessage of the first CLI (package main)
moveMessage(c, uid, folder) ==
    Bind(ConnUidCopy(c, {uid}, folder), LAMBDA c1 :
        IF c1.err THEN c1
        ELSE Bind(ConnUidStore(c1, {uid}, "AddFlags", <<DeletedFlag>>), LAMBDA c2 :
                 IF c2.err THEN c2 ELSE ConnExpunge(c2)))

\* Client.SelectFolder of the models client: always opens read-only
SelectFolder(c, name) == ConnSelect(c, name, TRUE)

\* Client.SelectFolder of the config client: opens read-write
EngSelectFolder(c, folder) == ConnSelect(c, folder, FALSE)

-----------------------------------------------------------------------------
(* Test data *)

S_news == <<"n", "@", "c">>      \* a sender the rules match
S_NEWS == <<"N", "@", "c">>      \* the same sender in another case
S_friend == <<"f", "@", "g">>    \* a sender no rule matches
S_bare == <<"n">>                \* a sender with no '@'

Folders == {"INBOX", "Archive"}
DestFolders == {"Archive", "Nowhere"}

NoOp == [op |-> "none"]

NoFetch == [kind |-> "none"]

\* no live-preview connection
NoConn == [rpc |-> "none"]

NoThreads == <<>>

NoProbe == [pc |-> "none"]

TypeInit ==
    /\ mailboxes = [f \in {"INBOX"} |-> NewMailbox]    \* NewMemoryBackend
    /\ copyMode \in {"mailbox", "user"}
    /\ faultsLeft = MaxFaults
    /\ rulesTable = <<>>                               \* a store with no rule
    /\ fetch = NoFetch
    /\ conn = NoConn
    /\ threads = NoThreads
    /\ probe = NoProbe
    /\ last = NoOp

WithinBounds(boxes) ==
    \A f \in DOMAIN boxes :
        /\ boxes[f].uidNext <= MaxUid + 1
        /\ \A i \in 1..Len(boxes[f].messages) : Len(boxes[f].messages[i].flags) <= MaxFlags

\* TestServer.AddMessage / AddMessageToFolder
AddMessage(folder, from, subject, date) ==
    /\ WithinBounds(BackendAddMessage(mailboxes, folder, from, subject, date))
    /\ mailboxes' = BackendAddMessage(mailboxes, folder, from, subject, date)
    /\ last' = NoOp
    /\ UNCHANGED <<copyMode, faultsLeft, rulesTable, fetch, conn, threads, probe>>

\* TestServer.CreateFolder
CreateFolder(name) ==
    /\ name \notin DOMAIN mailboxes
    /\ mailboxes' = BackendCreateMailbox(mailboxes, name)
    /\ last' = NoOp
    /\ UNCHANGED <<copyMode, faultsLeft, rulesTable, fetch, conn, threads, probe>>

\* the fault of one operation: none, or one that a command of the session met
FaultChoices == 0..4

FaultOK(faultAt, c) ==
    faultAt = 0 \/ (faultsLeft > 0 /\ faultAt <= Len(c.log))

\* the caller has taken the result of the last operation
Return ==
    /\ last # NoOp
    /\ last' = NoOp
    /\ UNCHANGED <<mailboxes, copyMode, faultsLeft, rulesTable, fetch, conn, threads, probe>>

\* the end of a client operation: the server keeps what the session did
Finish(rec, faultAt, c) ==
    /\ FaultOK(faultAt, c)
    /\ WithinBounds(c.boxes)
    /\ mailboxes' = c.boxes
    /\ faultsLeft' = IF faultAt = 0 THEN faultsLeft ELSE faultsLeft - 1
    /\ last' = rec @@ [before |-> mailboxes, after |-> c.boxes, log |-> c.log,
                       err |-> c.err, open |-> c.open]
    /\ UNCHANGED <<copyMode, rulesTable, fetch, conn, threads, probe>>

\* Connect, SelectFolder, MoveMessage(uid, dest), as TestMoveMessage does; also
\* with no folder selected
DoMoveMessage ==
    /\ last = NoOp       \* the operation before it has returned
    /\ \E uid \in 1..MaxUid, dest \in DestFolders, sel \in {"INBOX", NoFolder},
          faultAt \in FaultChoices :
           LET c0 == NewSession(mailboxes, faultAt)
               c1 == IF sel = NoFolder THEN c0 ELSE SelectFolder(c0, sel)
           IN  /\ ~c1.err
               /\ Finish([op |-> "MoveMessage", uids |-> <<uid>>, dest |-> dest, src |-> sel],
                         faultAt, MoveMessage(c1, uid, dest))

\* the UID lists a caller may pass: in any order, without repetition
UidLists ==
    ({<<>>} \cup {<<u>> : u \in 1..MaxUid} \cup {<<u, v>> : u, v \in 1..MaxUid})
        \ {<<u, u>> : u \in 1..MaxUid}

\* NewClient, SelectFolder (read-write), MoveMessages(uids, dest)
DoMoveMessages ==
    /\ last = NoOp       \* the operation before it has returned
    /\ \E uids \in UidLists, dest \in DestFolders, sel \in {"INBOX"},
          faultAt \in FaultChoices :
           LET c1 == EngSelectFolder(NewSession(mailboxes, faultAt), sel)
           IN  /\ ~c1.err
               /\ Finish([op |-> "MoveMessages", uids |-> uids, dest |-> dest, src |-> sel],
                         faultAt, MoveMessages(c1, uids, dest))

\* c.Select("INBOX", false), then moveMessage(c, uid, folder), as run does
DomoveMessage ==
    /\ last = NoOp       \* the operation before it has returned
    /\ \E uid \in 1..MaxUid, dest \in DestFolders, faultAt \in FaultChoices :
           LET c1 == ConnSelect(NewSession(mailboxes, faultAt), "INBOX", FALSE)
           IN  /\ ~c1.err
               /\ Finish([op |-> "moveMessage", uids |-> <<uid>>, dest |-> dest, src |-> "INBOX"],
                         faultAt, moveMessage(c1, uid, dest))

MoveSetup ==
    \/ AddMessage("INBOX", S_news, <<>>, 0)
    \/ CreateFolder("Archive")

NextMove == MoveSetup \/ DoMoveMessage \/ DoMoveMessages \/ DomoveMessage \/ Return

SpecMove == TypeInit /\ [][NextMove]_vars

-----------------------------------------------------------------------------
(* C1, C2: the failure policy of a move *)

MoveOps == {"MoveMessage", "MoveMessages", "moveMessage"}

IsMove == last.op \in MoveOps

CopyFailed == IsMove /\ \E i \in 1..Len(last.log) : last.log[i].cmd = "copy" /\ ~last.log[i].ok

CopySucceeded == IsMove /\ \E i \in 1..Len(last.log) : last.log[i].cmd = "copy" /\ last.log[i].ok

LaterStepFailed ==
    \E i \in 1..Len(last.log) : last.log[i].cmd \in {"store", "expunge"} /\ ~last.log[i].ok

UidsOf(mbox) == {mbox.messages[i].uid : i \in 1..Len(mbox.messages)}

\* the UIDs of the move that the source held when the move began
MovedUids ==
    IF last.src \in DOMAIN last.before
    THEN SeqToSet(last.uids) \cap UidsOf(last.before[last.src])
    ELSE {}

\* C1: if the copy step of a move fails, the store and the expunge are not issued,
\* the move returns an error and every folder is as it was
C1_CopyFailureStopsMove ==
    CopyFailed =>
        /\ last.err
        /\ \A i \in 1..Len(last.log) : last.log[i].cmd \notin {"store", "expunge"}
        /\ last.after = last.before

\* a move of a message the source holds whose copy failed
C1_Witness ==
    /\ CopyFailed
    /\ MovedUids # {}
    /\ last.op = "MoveMessage"

\* C2: if the copy succeeds and the store or the expunge fails, the move returns an
\* error, the failed command is the last one issued (nothing undoes the copy), and
\* every moved message is still in the source and has its copy in the destination
C2_PartialMoveDuplicates ==
    (CopySucceeded /\ LaterStepFailed) =>
        /\ last.err
        /\ ~last.log[Len(last.log)].ok
        /\ \A i \in 1..(Len(last.log) - 1) : last.log[i].ok
        /\ MovedUids \subseteq UidsOf(last.after[last.src])
        /\ LET d0 == last.before[last.dest].messages
               d1 == last.after[last.dest].messages
               s0 == last.before[last.src].messages
           IN  /\ Len(d1) = Len(d0) + Cardinality(MovedUids)
               /\ \A i \in 1..Len(s0) :
                     s0[i].uid \in MovedUids =>
                         \E j \in (Len(d0) + 1)..Len(d1) : d1[j].from = s0[i].from

\* a move whose copy succeeded and whose expunge failed, of a message of the source
C2_Witness ==
    /\ CopySucceeded
    /\ MovedUids # {}
    /\ \E i \in 1..Len(last.log) : last.log[i].cmd = "expunge" /\ ~last.log[i].ok

-----------------------------------------------------------------------------
(* The models client: fetch, first-match preview, apply *)

RECURSIVE JoinAddresses(_)
\* strings.Join(parts, ", ")
JoinAddresses(parts) ==
    IF parts = <<>> THEN <<>>
    ELSE IF Len(parts) = 1 THEN parts[1]
    ELSE parts[1] \o <<",", " ">> \o JoinAddresses(Tail(parts))

\* formatAddresses (models client); the state model sets no PersonalName
formatAddresses(addresses) ==
    JoinAddresses([i \in 1..Len(addresses) |->
                      addresses[i].MailboxName \o <<"@">> \o addresses[i].HostName])

NoRule == [ID |-> 0]

\* the models.Message built from one fetched message
ToMessage(msg) ==
    [UID |-> msg.Uid, SeqNum |-> msg.SeqNum, From |-> formatAddresses(msg.Envelope.From),
     Subject |-> msg.Envelope.Subject, Date |-> msg.Envelope.Date, Flags |-> msg.Flags,
     MatchedRule |-> NoRule]

Reverse(q) == [i \in 1..Len(q) |-> q[Len(q) + 1 - i]]

\* the first sequence number fetched: the whole folder unless 0 < limit < Messages
\* (every limit of the model is below 2^32, the other bound the code tests)
FetchFrom(messages, limit) ==
    IF limit > 0 /\ limit < messages
    THEN messages - limit + 1
    ELSE 1

\* Client.FetchMessages (models client): [c, msgs, err]
FetchMessages(c, limit) ==
    Bind(IF c.selected = NoFolder THEN SelectFolder(c, "INBOX") ELSE [c EXCEPT !.err = FALSE],
         LAMBDA c1 :
    IF c1.err THEN [c |-> c1, msgs |-> <<>>, err |-> TRUE]
    ELSE Bind(ConnSelect(c1, c1.selected, TRUE), LAMBDA c2 :
    IF c2.err THEN [c |-> c2, msgs |-> <<>>, err |-> TRUE]
    ELSE IF c2.status = 0 THEN [c |-> c2, msgs |-> <<>>, err |-> FALSE]
    ELSE Bind(ConnFetch(c2, FetchFrom(c2.status, limit)..c2.status), LAMBDA c3 :
    IF c3.err THEN [c |-> c3, msgs |-> <<>>, err |-> TRUE]
    ELSE [c |-> c3, err |-> FALSE,
          msgs |-> Reverse([i \in 1..Len(c3.fetched) |-> ToMessage(c3.fetched[i])])])))

\* matchesRule (internal/imap): case-insensitive containment by pattern type
matchesRule(msg, rule) ==
    LET pattern == ToLower(rule.Pattern)
    IN  CASE rule.PatternType = "subject" -> Contains(ToLower(msg.Subject), pattern)
          [] rule.PatternType = "from_domain" ->
                LET from == ToLower(msg.From)
                    idx  == LastIndex(from, "@")
                IN  IF idx # 0
                    THEN Contains(TrimSuffix(SubSeq(from, idx + 1, Len(from)), <<">">>), pattern)
                    ELSE FALSE
          [] OTHER -> Contains(ToLower(msg.From), pattern)

\* Message.MatchesRule (internal/models), as the data model describes it: the same
\* containment by pattern kind
MatchesRule(msg, rule) ==
    LET pattern == ToLower(rule.Pattern)
    IN  CASE rule.PatternType = "subject" -> Contains(ToLower(msg.Subject), pattern)
          [] rule.PatternType = "from_domain" ->
                LET from == ToLower(msg.From)
                    idx  == LastIndex(from, "@")
                IN  IF idx # 0
                    THEN Contains(TrimSuffix(SubSeq(from, idx + 1, Len(from)), <<">">>), pattern)
                    ELSE FALSE
          [] OTHER -> Contains(ToLower(msg.From), pattern)

\* an inner loop with no break: every enabled matching rule is recorded and counted
RuleHits_NoBreak(msg, rules) ==
    FilterSeq([j \in 1..Len(rules) |-> j],
              {j \in 1..Len(rules) : rules[j].Enabled /\ matchesRule(msg, rules[j])})

\* an inner loop that does not skip the disabled rules
RuleHits_IgnoresEnabled(msg, rules) ==
    LET hit == {j \in 1..Len(rules) : matchesRule(msg, rules[j])}
    IN  IF hit = {} THEN <<>>
        ELSE << CHOOSE j \in hit : \A k \in hit : j <= k >>

\* the inner loop of PreviewRules: the rules recorded for one message, in the order
\* recorded; the break leaves at most the first enabled rule that matches
RuleHits(msg, rules) ==
    LET hit == {j \in 1..Len(rules) : rules[j].Enabled /\ matchesRule(msg, rules[j])}
    IN  IF hit = {} THEN <<>>
        ELSE << CHOOSE j \in hit : \A k \in hit : j <= k >>

\* result.RuleMatches[rule.ID]++
BumpRule(ruleMatches, id) ==
    [x \in DOMAIN ruleMatches \cup {id} |->
        IF x = id
        THEN (IF id \in DOMAIN ruleMatches THEN ruleMatches[id] + 1 ELSE 1)
        ELSE ruleMatches[x]]

RECURSIVE RecordHits(_, _, _, _)
\* the body of the inner loop for the rules hit: MatchedRule, MatchedMessages++,
\* RuleMatches[rule.ID]++; acc is [msg, matched, ruleMatches]
RecordHits(acc, rules, hits, k) ==
    IF k > Len(hits) THEN acc
    ELSE RecordHits([msg         |-> [acc.msg EXCEPT !.MatchedRule = rules[hits[k]]],
                     matched     |-> acc.matched + 1,
                     ruleMatches |-> BumpRule(acc.ruleMatches, rules[hits[k]].ID)],
                    rules, hits, k + 1)

RECURSIVE PreviewLoop(_, _, _, _)
\* the outer loop of PreviewRules over messages[i..]; result so far in res
PreviewLoop(messages, rules, i, res) ==
    IF i > Len(messages) THEN res
    ELSE Bind(RecordHits([msg |-> messages[i], matched |-> res.MatchedMessages,
                          ruleMatches |-> res.RuleMatches],
                         rules, RuleHits(messages[i], rules), 1),
              LAMBDA acc :
                  PreviewLoop(messages, rules, i + 1,
                              [res EXCEPT !.Messages = Append(@, acc.msg),
                                          !.MatchedMessages = acc.matched,
                                          !.RuleMatches = acc.ruleMatches]))

EmptyMap == [x \in {} |-> 0]

NoResult == [TotalMessages |-> -1]

\* Client.PreviewRules: [c, result, err]
PreviewRules(c, rules, folder, limit) ==
    Bind(IF folder # NoFolder THEN SelectFolder(c, folder) ELSE [c EXCEPT !.err = FALSE],
         LAMBDA c1 :
    IF c1.err THEN [c |-> c1, result |-> NoResult, err |-> TRUE]
    ELSE Bind(FetchMessages(c1, limit), LAMBDA f :
    IF f.err THEN [c |-> f.c, result |-> NoResult, err |-> TRUE]
    ELSE [c |-> f.c, err |-> FALSE,
          result |-> PreviewLoop(f.msgs, rules, 1,
                        [TotalMessages |-> Len(f.msgs), MatchedMessages |-> 0,
                         Messages |-> <<>>, RuleMatches |-> EmptyMap])]))

RECURSIVE MoveMatched(_, _, _)
\* the loop of ApplyRules over preview.Messages[i..]: stops at the first failed move
MoveMatched(c, messages, i) ==
    IF i > Len(messages) THEN [c EXCEPT !.err = FALSE]
    ELSE IF messages[i].MatchedRule = NoRule THEN MoveMatched(c, messages, i + 1)
    ELSE Bind(MoveMessage(c, messages[i].UID, messages[i].MatchedRule.MoveToFolder),
              LAMBDA c1 : IF c1.err THEN c1 ELSE MoveMatched(c1, messages, i + 1))

RECURSIVE MoveMatched_GoesOn(_, _, _)
\* a loop that goes on to the next match after a failed move
MoveMatched_GoesOn(c, messages, i) ==
    IF i > Len(messages) THEN c
    ELSE IF messages[i].MatchedRule = NoRule THEN MoveMatched_GoesOn(c, messages, i + 1)
    ELSE Bind(MoveMessage(c, messages[i].UID, messages[i].MatchedRule.MoveToFolder),
              LAMBDA c1 : [MoveMatched_GoesOn(c1, messages, i + 1) EXCEPT
                              !.err = @ \/ c1.err])

\* an ApplyRules that tries every match and reports the failures at the end
ApplyRules_GoesOnAfterFailedMove(c, rules, folder, dryRun) ==
    Bind(PreviewRules(c, rules, folder, 0), LAMBDA p :
    IF p.err THEN p
    ELSE IF dryRun THEN p
    ELSE Bind(MoveMatched_GoesOn([p.c EXCEPT !.err = FALSE], p.result.Messages, 1),
              LAMBDA c1 :
    IF c1.err THEN [c |-> c1, result |-> NoResult, err |-> TRUE]
    ELSE [c |-> c1, result |-> p.result, err |-> FALSE]))

\* an ApplyRules that moves the matches although dryRun is set
ApplyRules_IgnoresDryRun(c, rules, folder, dryRun) ==
    Bind(PreviewRules(c, rules, folder, 0), LAMBDA p :
    IF p.err THEN p
    ELSE Bind(MoveMatched(p.c, p.result.Messages, 1), LAMBDA c1 :
    IF c1.err THEN [c |-> c1, result |-> NoResult, err |-> TRUE]
    ELSE [c |-> c1, result |-> p.result, err |-> FALSE]))

\* Client.ApplyRules: [c, result, err]
ApplyRules(c, rules, folder, dryRun) ==
    Bind(PreviewRules(c, rules, folder, 0), LAMBDA p :
    IF p.err THEN p
    ELSE IF dryRun THEN p
    ELSE Bind(MoveMatched(p.c, p.result.Messages, 1), LAMBDA c1 :
    IF c1.err THEN [c |-> c1, result |-> NoResult, err |-> TRUE]
    ELSE [c |-> c1, result |-> p.result, err |-> FALSE]))

-----------------------------------------------------------------------------
(* The rule store and the REST handlers *)

\* the byte order of two names: a is a proper prefix of b, or smaller at the
\* first position where they differ
LexLess(a, b) ==
    \E k \in 1..(Len(a) + 1) :
        /\ \A i \in 1..(k - 1) : i <= Len(b) /\ a[i] = b[i]
        /\ k <= Len(b)
        /\ (k = Len(a) + 1 \/ a[k] < b[k])

\* ORDER BY priority DESC, name: a may come before b
RuleOrdered(a, b) ==
    \/ a.Priority > b.Priority
    \/ a.Priority = b.Priority /\ ~LexLess(b.Name, a.Name)

IndexOrders(n) == {p \in [1..n -> 1..n] : \A i, j \in 1..n : p[i] = p[j] => i = j}

\* WHERE account_id = ?
RulesOfAccount(table, accountID) ==
    FilterSeq(table, {i \in 1..Len(table) : table[i].AccountID = accountID})

\* a ListRules that returns the rows in insertion order
ListRules_Unsorted(table, accountID) == {RulesOfAccount(table, accountID)}

\* Store.ListRules: the orders the query may return the account's rows in (rows
\* equal in priority and name come in either order)
ListRules(table, accountID) ==
    Bind(RulesOfAccount(table, accountID), LAMBDA rows :
        {[i \in 1..Len(rows) |-> rows[p[i]]] : p \in
            {q \in IndexOrders(Len(rows)) :
                \A i, j \in 1..Len(rows) : i < j => RuleOrdered(rows[q[i]], rows[q[j]])}})

\* the accounts table: Store.GetAccount finds these ids
Accounts == {1}

DefaultLimit == 100

\* a preview handler that runs the rules for real
HandlerRun_PreviewApplies(boxes, accountID, rules, folder, limit, dryRun, apply, listOK, connectOK, faultAt) ==
    IF accountID \notin Accounts \/ ~listOK \/ ~connectOK
    THEN [status |-> 500, c |-> [NewSession(boxes, faultAt) EXCEPT !.open = FALSE],
          result |-> NoResult, err |-> TRUE]
    ELSE Bind(ApplyRules(NewSession(boxes, faultAt), rules,
                         IF folder = NoFolder THEN "INBOX" ELSE folder, dryRun),
              LAMBDA r : [status |-> IF r.err THEN 500 ELSE 200, c |-> ConnLogout(r.c),
                          result |-> r.result, err |-> r.err])

\* Handler.PreviewRules and Handler.ApplyRules: account, rules, folder default,
\* Connect, the client call, Close.  rules is the list ListRules returned;
\* [status, c, result, err]
HandlerRun(boxes, accountID, rules, folder, limit, dryRun, apply, listOK, connectOK, faultAt) ==
    LET c0 == NewSession(boxes, faultAt)
        f  == IF folder = NoFolder THEN "INBOX" ELSE folder
        l  == IF limit > 0 THEN limit ELSE DefaultLimit
    IN  IF accountID \notin Accounts
        THEN [status |-> 404, c |-> [c0 EXCEPT !.open = FALSE], result |-> NoResult, err |-> TRUE]
        ELSE IF ~listOK
        THEN [status |-> 500, c |-> [c0 EXCEPT !.open = FALSE], result |-> NoResult, err |-> TRUE]
        ELSE IF ~connectOK
        THEN [status |-> 502, c |-> [c0 EXCEPT !.open = FALSE], result |-> NoResult, err |-> TRUE]
        ELSE Bind(IF apply THEN ApplyRules(c0, rules, f, dryRun)
                  ELSE PreviewRules(c0, rules, f, l),
                  LAMBDA r : [status |-> IF r.err THEN 500 ELSE 200, c |-> ConnLogout(r.c),
                              result |-> r.result, err |-> r.err])

-----------------------------------------------------------------------------
(* The first CLI: run *)

\* matchesSender: some address contains the pattern, case-insensitively
matchesSender(addresses, pattern) ==
    \E i \in 1..Len(addresses) :
        Contains(ToLower(addresses[i].MailboxName \o <<"@">> \o addresses[i].HostName),
                 ToLower(pattern))

\* the inner loop of run: the rules appended to matches for one message
RunHits(msg, rules) ==
    LET hit == {j \in 1..Len(rules) : matchesSender(msg.Envelope.From, rules[j].Sender)}
    IN  IF hit = {} THEN <<>>
        ELSE << CHOOSE j \in hit : \A k \in hit : j <= k >>

RECURSIVE RunMatches(_, _, _)
\* matches, as the drain of the fetch builds it
RunMatches(fetched, rules, i) ==
    IF i > Len(fetched) THEN <<>>
    ELSE Bind(RunHits(fetched[i], rules), LAMBDA hits :
             [k \in 1..Len(hits) |-> [UID |-> fetched[i].Uid, Rule |-> rules[hits[k]]]]
                 \o RunMatches(fetched, rules, i + 1))

RECURSIVE RunMoves(_, _, _)
\* the loop over matches: a failed move is logged and the loop goes on
RunMoves(c, matches, i) ==
    IF i > Len(matches) THEN c
    ELSE RunMoves(moveMessage(c, matches[i].UID, matches[i].Rule.MoveToFolder),
                  matches, i + 1)

\* run(config, dryRun): [c, matches, err]
run(boxes, rules, dryRun, loginOK, faultAt) ==
    LET c0 == NewSession(boxes, faultAt)
    IN  IF ~loginOK THEN [c |-> ConnLogout(c0), matches |-> <<>>, err |-> TRUE]
        ELSE Bind(ConnSelect(c0, "INBOX", FALSE), LAMBDA c1 :
             IF c1.err THEN [c |-> ConnLogout(c1), matches |-> <<>>, err |-> TRUE]
             ELSE IF c1.status = 0
             THEN [c |-> ConnLogout(c1), matches |-> <<>>, err |-> FALSE]
             ELSE Bind(ConnFetch(c1, 1..c1.status), LAMBDA c2 :
             IF c2.err
             THEN [c |-> ConnLogout(c2), matches |-> <<>>, err |-> TRUE]
             ELSE Bind(RunMatches(c2.fetched, rules, 1), LAMBDA ms :
                      [c |-> ConnLogout(IF dryRun THEN c2 ELSE RunMoves(c2, ms, 1)),
                       matches |-> ms, err |-> FALSE])))

-----------------------------------------------------------------------------
(* The live preview: handlePreviewRequest *)

\* sendProgress / sendProgressWithMessage: the event written to the connection
Progress(stage, current, total) ==
    [Type |-> "progress", Stage |-> stage, Current |-> current, Total |-> total]

\* sendProgressWithMessage: a progress event that carries the message
ProgressWithMessage(stage, current, total, msgData) ==
    [Type |-> "progress", Stage |-> stage, Current |-> current, Total |-> total,
     MessageData |-> msgData]

ErrorEvent == [Type |-> "error"]

\* WSMessage{Type: "error", Error: text}
ErrorWith(text) == [Type |-> "error", Error |-> text]

\* a store that finds an account under every id
GetAccount_AlwaysFinds(accountID) == TRUE

\* Store.GetAccount: the account, or none
GetAccount(accountID) == accountID \in Accounts

ResultEvent(result) == [Type |-> "result", Payload |-> result]

\* an inner loop of the live preview without the break: every enabled rule that
\* matches is recorded
WsHits_NoBreak(msg, rules) ==
    FilterSeq([j \in 1..Len(rules) |-> j],
              {j \in 1..Len(rules) : rules[j].Enabled /\ MatchesRule(msg, rules[j])})

\* an inner loop of the live preview that does not skip the disabled rules
WsHits_IgnoresEnabled(msg, rules) ==
    LET hit == {j \in 1..Len(rules) : MatchesRule(msg, rules[j])}
    IN  IF hit = {} THEN <<>>
        ELSE << CHOOSE j \in hit : \A k \in hit : j <= k >>

\* the inner loop of handlePreviewRequest, which asks the message itself
WsHits(msg, rules) ==
    LET hit == {j \in 1..Len(rules) : rules[j].Enabled /\ MatchesRule(msg, rules[j])}
    IN  IF hit = {} THEN <<>>
        ELSE << CHOOSE j \in hit : \A k \in hit : j <= k >>

RECURSIVE WsLoop_MatchedOnly(_, _, _, _, _)
\* a loop that reports the matched messages only
WsLoop_MatchedOnly(messages, rules, i, res, events) ==
    IF i > Len(messages) THEN [result |-> res, events |-> events]
    ELSE Bind(RecordHits([msg |-> messages[i], matched |-> res.MatchedMessages,
                          ruleMatches |-> res.RuleMatches],
                         rules, WsHits(messages[i], rules), 1),
              LAMBDA acc :
                  WsLoop_MatchedOnly(messages, rules, i + 1,
                         [res EXCEPT !.Messages = Append(@, acc.msg),
                                     !.MatchedMessages = acc.matched,
                                     !.RuleMatches = acc.ruleMatches],
                         IF acc.msg.MatchedRule = NoRule THEN events
                         ELSE Append(events, ProgressWithMessage("processing", i,
                                                                 Len(messages), acc.msg))))

RECURSIVE WsLoop(_, _, _, _, _)
\* the loop over messages[i..]: one processing event after each message
WsLoop(messages, rules, i, res, events) ==
    IF i > Len(messages) THEN [result |-> res, events |-> events]
    ELSE Bind(RecordHits([msg |-> messages[i], matched |-> res.MatchedMessages,
                          ruleMatches |-> res.RuleMatches],
                         rules, WsHits(messages[i], rules), 1),
              LAMBDA acc :
                  WsLoop(messages, rules, i + 1,
                         [res EXCEPT !.Messages = Append(@, acc.msg),
                                     !.MatchedMessages = acc.matched,
                                     !.RuleMatches = acc.ruleMatches],
                         Append(events, ProgressWithMessage("processing", i, Len(messages),
                                                            acc.msg))))

\* a payload that json.Unmarshal rejects
InvalidPayload == [Invalid |-> TRUE]

\* a handler that goes on to the fetch after the folder failed to open
handlePreviewRequest_GoesOnAfterError(boxes, accountID, req, rules, listOK, connectOK, faultAt) ==
    LET c0   == NewSession(boxes, faultAt)
        none == [c0 EXCEPT !.open = FALSE]
        e1   == <<Progress("connecting", 0, 0)>>
    IN  IF req = InvalidPayload
        THEN [events |-> <<ErrorWith("invalid preview request")>>, c |-> none,
              opened |-> FALSE, result |-> NoResult]
        ELSE IF ~GetAccount(accountID)
        THEN [events |-> Append(e1, ErrorWith("account not found")), c |-> none,
              opened |-> FALSE, result |-> NoResult]
        ELSE IF ~listOK
        THEN [events |-> Append(e1, ErrorWith("failed to load rules")), c |-> none,
              opened |-> FALSE, result |-> NoResult]
        ELSE IF ~connectOK
        THEN [events |-> Append(e1, ErrorEvent), c |-> none, opened |-> FALSE,
              result |-> NoResult]
        ELSE
        Bind(SelectFolder(c0, IF req.Folder = NoFolder THEN "INBOX" ELSE req.Folder),
             LAMBDA c1 :
        Bind(e1 \o <<Progress("connected", 0, 0), Progress("selecting", 0, 0)>>
                \o (IF c1.err THEN <<ErrorEvent>> ELSE <<>>)
                \o <<Progress("fetching", 0, c1.status)>>,
             LAMBDA e4 :
        Bind(FetchMessages(c1, IF req.Limit = 0 THEN DefaultLimit ELSE req.Limit),
             LAMBDA f :
        IF f.err
        THEN [events |-> Append(e4, ErrorEvent), opened |-> TRUE, c |-> ConnLogout(f.c),
              result |-> NoResult]
        ELSE Bind(WsLoop(f.msgs, rules, 1,
                         [TotalMessages |-> Len(f.msgs), MatchedMessages |-> 0,
                          Messages |-> <<>>, RuleMatches |-> EmptyMap],
                         Append(e4, Progress("processing", 0, Len(f.msgs)))),
                  LAMBDA w :
                      [events |-> Append(w.events, ResultEvent(w.result)),
                       opened |-> TRUE, c |-> ConnLogout(f.c), result |-> w.result]))))

\* handlePreviewRequest: the events written, in order; [events, c, result]
handlePreviewRequest(boxes, accountID, req, rules, listOK, connectOK, faultAt) ==
    LET c0   == NewSession(boxes, faultAt)
        none == [c0 EXCEPT !.open = FALSE]
        e1   == <<Progress("connecting", 0, 0)>>
    IN  IF req = InvalidPayload
        THEN [events |-> <<ErrorWith("invalid preview request")>>, c |-> none,
              opened |-> FALSE, result |-> NoResult]
        ELSE IF ~GetAccount(accountID)
        THEN [events |-> Append(e1, ErrorWith("account not found")), c |-> none,
              opened |-> FALSE, result |-> NoResult]
        ELSE IF ~listOK
        THEN [events |-> Append(e1, ErrorWith("failed to load rules")), c |-> none,
              opened |-> FALSE, result |-> NoResult]
        ELSE IF ~connectOK
        THEN [events |-> Append(e1, ErrorEvent), c |-> none, opened |-> FALSE,
              result |-> NoResult]
        ELSE LET folder == IF req.Folder = NoFolder THEN "INBOX" ELSE req.Folder
                 limit  == IF req.Limit = 0 THEN DefaultLimit ELSE req.Limit
                 e3     == e1 \o <<Progress("connected", 0, 0), Progress("selecting", 0, 0)>>
             IN  Bind(SelectFolder(c0, folder), LAMBDA c1 :
                 IF c1.err
                 THEN [events |-> Append(e3, ErrorEvent), opened |-> TRUE,
                       c |-> ConnLogout(c1), result |-> NoResult]
                 ELSE Bind(Append(e3, Progress("fetching", 0, c1.status)), LAMBDA e4 :
                      Bind(FetchMessages(c1, limit), LAMBDA f :
                      IF f.err
                      THEN [events |-> Append(e4, ErrorEvent), opened |-> TRUE,
                            c |-> ConnLogout(f.c), result |-> NoResult]
                      ELSE Bind(WsLoop(f.msgs, rules, 1,
                                       [TotalMessages |-> Len(f.msgs), MatchedMessages |-> 0,
                                        Messages |-> <<>>, RuleMatches |-> EmptyMap],
                                       Append(e4, Progress("processing", 0, Len(f.msgs)))),
                                LAMBDA w :
                                    [events |-> Append(w.events, ResultEvent(w.result)),
                                     opened |-> TRUE, c |-> ConnLogout(f.c),
                                     result |-> w.result]))))

-----------------------------------------------------------------------------
(* The first-match pipeline: rules in the store, preview, apply, run *)

MaxRules == 2      \* no more rows than this in the rules table

N_a == <<97>>      \* the rule name "a"
N_b == <<98>>      \* the rule name "b"

RuleInput(n, p, e, pr) == [Name |-> n, Pattern |-> p, Enabled |-> e, Priority |-> pr]

\* the rules a user creates: names, priorities and patterns that tie and that differ,
\* enabled and disabled
RuleInputs ==
    {RuleInput(N_a, <<"@">>, TRUE, 1), RuleInput(N_b, <<"@">>, TRUE, 1),
     RuleInput(N_a, <<"n">>, TRUE, 2), RuleInput(N_b, <<"@">>, FALSE, 2)}

\* the row Store.CreateRule inserts: it gets the next id
NewRuleRow(table, in) ==
    [ID |-> Len(table) + 1, AccountID |-> 1, Name |-> in.Name,
     Pattern |-> in.Pattern, PatternType |-> "sender", MoveToFolder |-> "Archive",
     Enabled |-> in.Enabled, Priority |-> in.Priority]

\* Store.CreateRule
CreateRule(in) ==
    /\ Len(rulesTable) < MaxRules
    /\ rulesTable' = Append(rulesTable, NewRuleRow(rulesTable, in))
    /\ last' = NoOp
    /\ UNCHANGED <<mailboxes, copyMode, faultsLeft, fetch, conn, threads, probe>>

\* what the store and the network do to one request
Envs == {"ok", "noAccount", "listFails", "connectFails"}

\* the account id of the request: 1 is in the accounts table, 2 is not
AccountOf(env) == IF env = "noAccount" THEN 2 ELSE 1

DefaultFolder(folder) == IF folder = NoFolder THEN "INBOX" ELSE folder

\* GET /accounts/{id}/preview; a failure of the store or of the network is tried
\* on the default request only
DoPreviewRules(faults) ==
    /\ last = NoOp       \* the operation before it has returned
    /\ \E folder \in {NoFolder, "Nowhere"}, limit \in {0, 1}, env \in Envs, faultAt \in faults :
          \E rules \in ListRules(rulesTable, AccountOf(env)) :
           /\ env = "ok" \/ (folder = NoFolder /\ limit = 0 /\ faultAt = 0)
           /\ \E h \in {HandlerRun(mailboxes, AccountOf(env), rules, folder, limit, FALSE, FALSE,
                                 env # "listFails", env # "connectFails", faultAt)} :
               Finish([op |-> "PreviewRules", src |-> DefaultFolder(folder), dryRun |-> TRUE,
                      rules |-> rules, result |-> h.result, status |-> h.status,
                      env |-> env, faultAt |-> faultAt],
                     faultAt, [h.c EXCEPT !.err = h.err])

\* POST /accounts/{id}/apply
DoApplyRules(faults) ==
    /\ last = NoOp       \* the operation before it has returned
    /\ \E folder \in {NoFolder, "INBOX"}, dryRun \in BOOLEAN, env \in Envs, faultAt \in faults :
          \E rules \in ListRules(rulesTable, AccountOf(env)) :
           /\ env = "ok" \/ (folder = NoFolder /\ ~dryRun /\ faultAt = 0)
           /\ \E h \in {HandlerRun(mailboxes, AccountOf(env), rules, folder, 0, dryRun, TRUE,
                                 env # "listFails", env # "connectFails", faultAt)} :
               Finish([op |-> "ApplyRules", src |-> DefaultFolder(folder), dryRun |-> dryRun,
                      rules |-> rules, result |-> h.result, status |-> h.status,
                      env |-> env, faultAt |-> faultAt],
                     faultAt, [h.c EXCEPT !.err = h.err])

\* the payloads of a "preview" message
PreviewRequests ==
    {InvalidPayload} \cup [Folder : {NoFolder, "Nowhere"}, Limit : {0, 1, -1}]

\* one "preview" message on a live-preview connection
DoLivePreview(faults) ==
    /\ last = NoOp       \* the operation before it has returned
    /\ \E req \in PreviewRequests, env \in Envs, faultAt \in faults :
          \E rules \in ListRules(rulesTable, AccountOf(env)) :
           /\ env = "ok" \/ (req = [Folder |-> NoFolder, Limit |-> 0] /\ faultAt = 0)
           /\ \E h \in {handlePreviewRequest(mailboxes, AccountOf(env), req, rules,
                                           env # "listFails", env # "connectFails", faultAt)} :
               Finish([op |-> "LivePreview",
                      src |-> IF req = InvalidPayload THEN "INBOX"
                              ELSE DefaultFolder(req.Folder),
                      dryRun |-> TRUE, rules |-> rules, result |-> h.result,
                      events |-> h.events, env |-> env, faultAt |-> faultAt, req |-> req,
                      opened |-> h.opened],
                     faultAt, h.c)

\* the rules of a CLI configuration file
CliRules == [Sender : {<<"n">>, <<"@">>}, MoveToFolder : {"Archive"}]

CliConfigs == {<<>>} \cup {<<r>> : r \in CliRules} \cup {<<r, q>> : r, q \in CliRules}

\* mailcleaner -config file [-dry-run]; a failed login is tried on one request only
DoRun(faults) ==
    /\ last = NoOp       \* the operation before it has returned
    /\ \E rules \in CliConfigs, dryRun \in BOOLEAN, loginOK \in BOOLEAN, faultAt \in faults :
           /\ loginOK \/ (rules = <<>> /\ ~dryRun /\ faultAt = 0)
           /\ \E r \in {run(mailboxes, rules, dryRun, loginOK, faultAt)} :
               Finish([op |-> "run", src |-> "INBOX", dryRun |-> dryRun, rules |-> rules,
                      matches |-> r.matches,
                      env |-> IF loginOK THEN "ok" ELSE "connectFails", faultAt |-> faultAt],
                     faultAt, [r.c EXCEPT !.err = r.err])

\* a server as the tests set it up: two messages in INBOX, an empty Archive
TwoMessages ==
    BackendAddMessage(
        BackendAddMessage(BackendCreateMailbox([f \in {"INBOX"} |-> NewMailbox], "Archive"),
                          "INBOX", S_news, <<>>, 0),
        "INBOX", S_friend, <<>>, 0)

InitRules ==
    /\ mailboxes = TwoMessages
    /\ copyMode \in {"mailbox", "user"}
    /\ faultsLeft = MaxFaults
    /\ rulesTable = <<>>
    /\ fetch = NoFetch
    /\ conn = NoConn
    /\ threads = NoThreads
    /\ probe = NoProbe
    /\ last = NoOp

NextRules ==
    \/ \E in \in RuleInputs : CreateRule(in)
    \/ DoPreviewRules(0..3)
    \/ DoApplyRules(0..6)
    \/ DoLivePreview(0..3)
    \/ DoRun(0..5)
    \/ Return

SpecRules == InitRules /\ [][NextRules]_vars

-----------------------------------------------------------------------------
(* The batch engine: conditions *)

\* a uint32 as two 16-bit halves, hi * 2^16 + lo
Half == 65536

U32(hi, lo) == [hi |-> hi, lo |-> lo]

LeqU32(a, b) == a.hi < b.hi \/ (a.hi = b.hi /\ a.lo <= b.lo)

\* x * 1024 in uint32 arithmetic: the bits above 2^32 are lost
Times1024(x) ==
    U32((x.hi * 1024 + (x.lo * 1024) \div Half) % Half, (x.lo * 1024) % Half)

DigitVal ==
    [d \in {"0", "1", "2", "3", "4", "5", "6", "7", "8", "9"} |->
        CASE d = "0" -> 0 [] d = "1" -> 1 [] d = "2" -> 2 [] d = "3" -> 3 [] d = "4" -> 4
          [] d = "5" -> 5 [] d = "6" -> 6 [] d = "7" -> 7 [] d = "8" -> 8 [] OTHER -> 9]

RECURSIVE ParseDigits(_, _, _)
\* the digits s[i..] appended to acc; ok is FALSE for a non-digit and past 2^32 - 1
ParseDigits(s, i, acc) ==
    IF i > Len(s) THEN [ok |-> TRUE, val |-> acc]
    ELSE IF s[i] \notin DOMAIN DigitVal THEN [ok |-> FALSE, val |-> U32(0, 0)]
    ELSE LET lo == acc.lo * 10 + DigitVal[s[i]]
             hi == acc.hi * 10 + lo \div Half
         IN  IF hi >= Half THEN [ok |-> FALSE, val |-> U32(0, 0)]
             ELSE ParseDigits(s, i + 1, U32(hi, lo % Half))

\* strconv.ParseUint(s, 10, 32): no sign, at least one digit
ParseUint(s) ==
    IF s = <<>> THEN [ok |-> FALSE, val |-> U32(0, 0)] ELSE ParseDigits(s, 1, U32(0, 0))

RECURSIVE TrimSpace(_)
\* strings.TrimSpace
TrimSpace(s) ==
    IF s # <<>> /\ s[1] = " " THEN TrimSpace(Tail(s))
    ELSE IF s # <<>> /\ s[Len(s)] = " " THEN TrimSpace(SubSeq(s, 1, Len(s) - 1))
    ELSE s

\* parseSize: [ok, val]; the product wraps in uint32
parseSize(str) ==
    Bind(ToUpper(TrimSpace(str)), LAMBDA s :
    Bind(IF HasSuffix(s, <<"G", "B">>) THEN 3
         ELSE IF HasSuffix(s, <<"M", "B">>) THEN 2
         ELSE IF HasSuffix(s, <<"K", "B">>) THEN 1
         ELSE 0, LAMBDA unit :
    Bind(IF unit = 3 THEN TrimSuffix(s, <<"G", "B">>)
         ELSE IF unit = 2 THEN TrimSuffix(s, <<"M", "B">>)
         ELSE IF unit = 1 THEN TrimSuffix(s, <<"K", "B">>)
         ELSE IF HasSuffix(s, <<"B">>) THEN TrimSuffix(s, <<"B">>)
         ELSE s, LAMBDA digits :
    Bind(ParseUint(TrimSpace(digits)), LAMBDA p :
    IF ~p.ok THEN p
    ELSE [ok |-> TRUE,
          val |-> IF unit = 3 THEN Times1024(Times1024(Times1024(p.val)))
                  ELSE IF unit = 2 THEN Times1024(Times1024(p.val))
                  ELSE IF unit = 1 THEN Times1024(p.val)
                  ELSE p.val]))))

\* Email.IsRead
IsRead(email) == \E i \in 1..Len(email.Flags) : email.Flags[i] = SeenFlag

\* a *bool condition that the configuration leaves out
Nil == {}

\* config.Conditions with no predicate
NoConditions ==
    [From |-> <<>>, FromContains |-> <<>>, To |-> <<>>, ToContains |-> <<>>,
     Subject |-> <<>>, SubjectContains |-> <<>>, OlderThanDays |-> 0, NewerThanDays |-> 0,
     IsRead |-> Nil, IsUnread |-> Nil, HasAttachment |-> Nil, SizeLargerThan |-> <<>>]

\* Engine.matchConditions at day now: every predicate present must hold; a size that
\* does not parse is passed over
matchConditions(email, c, now) ==
    /\ c.From # <<>> => EqualFold(email.From, c.From)
    /\ c.FromContains # <<>> => Contains(ToLower(email.From), ToLower(c.FromContains))
    /\ c.To # <<>> => \E i \in 1..Len(email.To) : EqualFold(email.To[i], c.To)
    /\ c.ToContains # <<>> =>
          \E i \in 1..Len(email.To) : Contains(ToLower(email.To[i]), ToLower(c.ToContains))
    /\ c.Subject # <<>> => EqualFold(email.Subject, c.Subject)
    /\ c.SubjectContains # <<>> =>
          Contains(ToLower(email.Subject), ToLower(c.SubjectContains))
    /\ c.OlderThanDays > 0 => ~(email.Date > now - c.OlderThanDays)
    /\ c.NewerThanDays > 0 => ~(email.Date < now - c.NewerThanDays)
    /\ c.IsRead # Nil => c.IsRead = {IsRead(email)}
    /\ c.IsUnread # Nil => c.IsUnread # {IsRead(email)}
    /\ c.HasAttachment # Nil => c.HasAttachment = {email.HasAttachment}
    /\ c.SizeLargerThan # <<>> =>
          Bind(parseSize(c.SizeLargerThan), LAMBDA p : ~(p.ok /\ LeqU32(email.Size, p.val)))

\* a matchEmails that keeps the first matching email only
matchEmails_FirstOnly(emails, conditions, now) ==
    LET hit == {i \in 1..Len(emails) : matchConditions(emails[i], conditions, now)}
    IN  IF hit = {} THEN <<>> ELSE <<emails[CHOOSE i \in hit : \A j \in hit : i <= j]>>

\* Engine.matchEmails
matchEmails(emails, conditions, now) ==
    FilterSeq(emails, {i \in 1..Len(emails) : matchConditions(emails[i], conditions, now)})

-----------------------------------------------------------------------------
(* The batch engine: the config client and the rule runs *)

\* the Email built from one fetched message; the state model reports no size, no
\* recipient and no body structure
ToEmail(msg) ==
    [UID |-> msg.Uid, SeqNum |-> msg.SeqNum, Flags |-> msg.Flags, Size |-> U32(0, 0),
     Subject |-> msg.Envelope.Subject, Date |-> msg.Envelope.Date,
     From |-> IF Len(msg.Envelope.From) > 0
              THEN msg.Envelope.From[1].MailboxName \o <<"@">> \o msg.Envelope.From[1].HostName
              ELSE <<>>,
     To |-> <<>>, HasAttachment |-> FALSE]

\* Client.FetchEmails (config client): [c, emails, err]
FetchEmails(c, seqSet) ==
    IF seqSet = {} THEN [c |-> [c EXCEPT !.err = FALSE], emails |-> <<>>, err |-> FALSE]
    ELSE Bind(ConnFetch(c, seqSet), LAMBDA c1 :
             IF c1.err THEN [c |-> c1, emails |-> <<>>, err |-> TRUE]
             ELSE [c |-> c1, err |-> FALSE,
                   emails |-> [i \in 1..Len(c1.fetched) |-> ToEmail(c1.fetched[i])]])

\* Client.FetchAllEmails
FetchAllEmails(c, messages) ==
    IF messages = 0 THEN [c |-> [c EXCEPT !.err = FALSE], emails |-> <<>>, err |-> FALSE]
    ELSE FetchEmails(c, 1..messages)

\* Client.SetFlags
SetFlags(c, uids, flags, add) ==
    IF uids = <<>> THEN [c EXCEPT !.err = FALSE]
    ELSE ConnUidStore(c, SeqToSet(uids), IF add THEN "AddFlags" ELSE "RemoveFlags", flags)

MarkAsRead(c, uids) == SetFlags(c, uids, <<SeenFlag>>, TRUE)
MarkAsUnread(c, uids) == SetFlags(c, uids, <<SeenFlag>>, FALSE)
FlagMessages(c, uids) == SetFlags(c, uids, <<FlaggedFlag>>, TRUE)
UnflagMessages(c, uids) == SetFlags(c, uids, <<FlaggedFlag>>, FALSE)

NoAction == [Type |-> "", MoveTo |-> "", AddFlag |-> "", RemoveFlag |-> ""]

\* an executeAction that acts although the engine is in dry-run mode
executeAction_IgnoresDryRun(c, emails, action, dryRun) ==
    LET uids == [i \in 1..Len(emails) |-> emails[i].UID]
        ok   == [c EXCEPT !.err = FALSE]
    IN  CASE action.Type = "delete" ->
                Bind(DeleteMessages(c, uids), LAMBDA c1 : IF c1.err THEN c1 ELSE Expunge(c1))
          [] action.Type = "move" ->
                IF action.MoveTo = "" THEN ok ELSE MoveMessages(c, uids, action.MoveTo)
          [] action.Type = "mark_read" -> MarkAsRead(c, uids)
          [] action.Type = "mark_unread" -> MarkAsUnread(c, uids)
          [] action.Type = "flag" -> FlagMessages(c, uids)
          [] action.Type = "unflag" -> UnflagMessages(c, uids)
          [] action.Type = "add_flag" ->
                IF action.AddFlag = "" THEN ok ELSE SetFlags(c, uids, <<action.AddFlag>>, TRUE)
          [] action.Type = "remove_flag" ->
                IF action.RemoveFlag = "" THEN ok
                ELSE SetFlags(c, uids, <<action.RemoveFlag>>, FALSE)
          [] OTHER -> ok

\* an executeAction that sends the command although its parameter is missing
executeAction_ActsWithoutParameter(c, emails, action, dryRun) ==
    LET uids == [i \in 1..Len(emails) |-> emails[i].UID]
        ok   == [c EXCEPT !.err = FALSE]
    IN  IF dryRun THEN ok
        ELSE CASE action.Type = "delete" ->
                Bind(DeleteMessages(c, uids), LAMBDA c1 : IF c1.err THEN c1 ELSE Expunge(c1))
          [] action.Type = "move" -> MoveMessages(c, uids, action.MoveTo)
          [] action.Type = "mark_read" -> MarkAsRead(c, uids)
          [] action.Type = "mark_unread" -> MarkAsUnread(c, uids)
          [] action.Type = "flag" -> FlagMessages(c, uids)
          [] action.Type = "unflag" -> UnflagMessages(c, uids)
          [] action.Type = "add_flag" -> SetFlags(c, uids, <<action.AddFlag>>, TRUE)
          [] action.Type = "remove_flag" -> SetFlags(c, uids, <<action.RemoveFlag>>, FALSE)
          [] OTHER -> ok

\* an executeAction whose delete expunges whatever became of the store
executeAction_ExpungesAfterFailedDelete(c, emails, action, dryRun) ==
    LET uids == [i \in 1..Len(emails) |-> emails[i].UID]
        ok   == [c EXCEPT !.err = FALSE]
    IN  IF dryRun THEN ok
        ELSE CASE action.Type = "delete" -> Expunge(DeleteMessages(c, uids))
          [] action.Type = "move" ->
                IF action.MoveTo = "" THEN ok ELSE MoveMessages(c, uids, action.MoveTo)
          [] action.Type = "flag" -> FlagMessages(c, uids)
          [] OTHER -> ok

\* Engine.executeAction
executeAction(c, emails, action, dryRun) ==
    LET uids == [i \in 1..Len(emails) |-> emails[i].UID]
        ok   == [c EXCEPT !.err = FALSE]
    IN  IF dryRun THEN ok
        ELSE CASE action.Type = "delete" ->
                Bind(DeleteMessages(c, uids), LAMBDA c1 : IF c1.err THEN c1 ELSE Expunge(c1))
          [] action.Type = "move" ->
                IF action.MoveTo = "" THEN ok ELSE MoveMessages(c, uids, action.MoveTo)
          [] action.Type = "mark_read" -> MarkAsRead(c, uids)
          [] action.Type = "mark_unread" -> MarkAsUnread(c, uids)
          [] action.Type = "flag" -> FlagMessages(c, uids)
          [] action.Type = "unflag" -> UnflagMessages(c, uids)
          [] action.Type = "add_flag" ->
                IF action.AddFlag = "" THEN ok ELSE SetFlags(c, uids, <<action.AddFlag>>, TRUE)
          [] action.Type = "remove_flag" ->
                IF action.RemoveFlag = "" THEN ok
                ELSE SetFlags(c, uids, <<action.RemoveFlag>>, FALSE)
          [] OTHER -> ok

\* the accounts of the configuration file: Config.GetAccount finds these names
ConfigAccounts == {"main"}

\* the day the engine runs; the messages of the model are dated before it
Today == 10

\* Engine.ExecuteRule: [c, err, matched, opened]; NewClient fails unless connectOK
\* an ExecuteRule that closes the client at the end of the function only: the early
\* returns leave the session open
ExecuteRule_ClosesAtEndOnly(boxes, rule, dryRun, connectOK, faultAt) ==
    LET c0   == NewSession(boxes, faultAt)
        none == [c0 EXCEPT !.open = FALSE]
    IN  IF rule.Account \notin ConfigAccounts
        THEN [c |-> none, err |-> FALSE, matched |-> <<>>, opened |-> FALSE]
        ELSE IF ~connectOK
        THEN [c |-> none, err |-> TRUE, matched |-> <<>>, opened |-> FALSE]
        ELSE Bind(EngSelectFolder(c0, rule.Folder), LAMBDA c1 :
             IF c1.err \/ c1.status = 0
             THEN [c |-> c1, err |-> c1.err, matched |-> <<>>, opened |-> TRUE]
             ELSE Bind(FetchAllEmails(c1, c1.status), LAMBDA f :
                  Bind(matchEmails(f.emails, rule.Conditions, Today), LAMBDA m :
                  IF f.err \/ m = <<>>
                  THEN [c |-> f.c, err |-> f.err, matched |-> <<>>, opened |-> TRUE]
                  ELSE Bind(executeAction(f.c, m, rule.Action, dryRun), LAMBDA c2 :
                           [c |-> ConnLogout(c2), err |-> c2.err, opened |-> TRUE,
                            matched |-> [i \in 1..Len(m) |-> m[i].UID]]))))

\* Engine.ExecuteRule: [c, err, matched, opened]
ExecuteRule(boxes, rule, dryRun, connectOK, faultAt) ==
    LET c0   == NewSession(boxes, faultAt)
        none == [c0 EXCEPT !.open = FALSE]
    IN  IF rule.Account \notin ConfigAccounts
        THEN [c |-> none, err |-> FALSE, matched |-> <<>>, opened |-> FALSE]
        ELSE IF ~connectOK
        THEN [c |-> none, err |-> TRUE, matched |-> <<>>, opened |-> FALSE]
        ELSE Bind(EngSelectFolder(c0, rule.Folder), LAMBDA c1 :
             IF c1.err \/ c1.status = 0
             THEN [c |-> ConnLogout(c1), err |-> c1.err, matched |-> <<>>, opened |-> TRUE]
             ELSE Bind(FetchAllEmails(c1, c1.status), LAMBDA f :
                  Bind(matchEmails(f.emails, rule.Conditions, Today), LAMBDA m :
                  IF f.err \/ m = <<>>
                  THEN [c |-> ConnLogout(f.c), err |-> f.err, matched |-> <<>>,
                        opened |-> TRUE]
                  ELSE Bind(executeAction(f.c, m, rule.Action, dryRun), LAMBDA c2 :
                           [c |-> ConnLogout(c2), err |-> c2.err, opened |-> TRUE,
                            matched |-> [i \in 1..Len(m) |-> m[i].UID]]))))

\* the fault of an engine run: rule, the rule it strikes (0: none); at, the command of
\* that rule's session that fails, or 0 for the connection itself
NoFault == [rule |-> 0, at |-> 0]

\* the record of one rule run of ExecuteAll
RuleRun(i, boxes, r) ==
    [rule |-> i, before |-> boxes, after |-> r.c.boxes, log |-> r.c.log, err |-> r.err,
     matched |-> r.matched, opened |-> r.opened, open |-> r.c.open]

RECURSIVE ExecuteAll_StopsAtError(_, _, _, _, _, _)
\* an ExecuteAll that gives up at the first rule that fails
ExecuteAll_StopsAtError(boxes, rules, dryRun, fault, i, runs) ==
    IF i > Len(rules) THEN [boxes |-> boxes, runs |-> runs, err |-> FALSE]
    ELSE Bind(ExecuteRule(boxes, rules[i], dryRun, ~(fault.rule = i /\ fault.at = 0),
                          IF fault.rule = i THEN fault.at ELSE 0),
              LAMBDA r :
                  IF r.err
                  THEN [boxes |-> r.c.boxes, runs |-> Append(runs, RuleRun(i, boxes, r)),
                        err |-> TRUE]
                  ELSE ExecuteAll_StopsAtError(r.c.boxes, rules, dryRun, fault, i + 1,
                                               Append(runs, RuleRun(i, boxes, r))))

RECURSIVE ExecuteAll(_, _, _, _, _, _)
\* Engine.ExecuteAll from rule i on: [boxes, runs, err]; a rule's error is logged
ExecuteAll(boxes, rules, dryRun, fault, i, runs) ==
    IF i > Len(rules) THEN [boxes |-> boxes, runs |-> runs, err |-> FALSE]
    ELSE Bind(ExecuteRule(boxes, rules[i], dryRun, ~(fault.rule = i /\ fault.at = 0),
                          IF fault.rule = i THEN fault.at ELSE 0),
              LAMBDA r : ExecuteAll(r.c.boxes, rules, dryRun, fault, i + 1,
                                    Append(runs, RuleRun(i, boxes, r))))

-----------------------------------------------------------------------------
(* Engine runs *)

MaxConfigRules == 2      \* no more rules than this in a configuration file

EngineRule(account, folder, conditions, type, moveTo) ==
    [Account |-> account, Folder |-> folder, Conditions |-> conditions,
     Action |-> [NoAction EXCEPT !.Type = type, !.MoveTo = moveTo]]

FromNews == [NoConditions EXCEPT !.FromContains = <<"n">>]

\* the rules of a configuration file
EngineRules ==
    {EngineRule("main", "INBOX", NoConditions, "flag", ""),
     EngineRule("main", "INBOX", FromNews, "delete", ""),
     EngineRule("main", "INBOX", FromNews, "move", "Archive"),
     EngineRule("ghost", "INBOX", NoConditions, "flag", ""),
     EngineRule("main", "Nowhere", NoConditions, "flag", "")}

RECURSIVE SeqsUpTo(_, _)
\* the sequences over S of length 1..n
SeqsUpTo(S, n) ==
    IF n = 0 THEN {}
    ELSE {<<x>> : x \in S} \cup {Append(q, x) : q \in SeqsUpTo(S, n - 1), x \in S}

EngineConfigs == SeqsUpTo(EngineRules, MaxConfigRules)

\* a fault strikes the first rule, so that the rules after it show what a failure
\* leaves of the run
EngineFaults == {NoFault} \cup [rule : {1}, at : 0..4]

\* the fault struck: the rule it names opened a connection or issued that command
EngineFaultOK(fault, rules, runs) ==
    \/ fault = NoFault
    \/ /\ fault # NoFault
       /\ faultsLeft > 0
       /\ fault.rule <= Len(runs)
       /\ IF fault.at = 0 THEN rules[fault.rule].Account \in ConfigAccounts
          ELSE fault.at <= Len(runs[fault.rule].log)

RECURSIVE JoinLogs(_)
JoinLogs(runs) == IF runs = <<>> THEN <<>> ELSE runs[1].log \o JoinLogs(Tail(runs))

\* mailcleaner run [-dry-run] of the second CLI: NewEngine(cfg, dryRun).ExecuteAll()
DoExecuteAll(configs, faults) ==
    /\ last = NoOp       \* the operation before it has returned
    /\ \E rules \in configs, dryRun \in BOOLEAN, fault \in faults :
           \E r \in {ExecuteAll(mailboxes, rules, dryRun, fault, 1, <<>>)} :
               /\ EngineFaultOK(fault, rules, r.runs)
               /\ WithinBounds(r.boxes)
               /\ mailboxes' = r.boxes
               /\ faultsLeft' = IF fault = NoFault THEN faultsLeft ELSE faultsLeft - 1
               /\ last' = [op |-> "ExecuteAll", dryRun |-> dryRun, rules |-> rules,
                           runs |-> r.runs, fault |-> fault, before |-> mailboxes,
                           after |-> r.boxes, log |-> JoinLogs(r.runs), err |-> r.err,
                           open |-> \E i \in 1..Len(r.runs) : r.runs[i].open]
               /\ UNCHANGED <<copyMode, rulesTable, fetch, conn, threads, probe>>

NextEngine == DoExecuteAll(EngineConfigs, EngineFaults) \/ Return

SpecEngine == InitRules /\ [][NextEngine]_vars

NextDryRun ==
    \/ CreateRule(RuleInput(N_a, <<"n">>, TRUE, 1))
    \/ DoApplyRules({0})
    \/ DoRun({0})
    \/ DoExecuteAll(SeqsUpTo(EngineRules, 1), {NoFault})
    \/ Return

SpecDryRun == InitRules /\ [][NextDryRun]_vars

-----------------------------------------------------------------------------
(* A fetch step by step: the producer goroutine, the queue, the consumer *)

QueueCap == 1      \* the capacity of the messages channel (100 in the code)

FetchKinds == {"FetchMessages", "FetchEmails", "run"}

\* make(chan *imap.Message, 100), make(chan error, 1), go func() { done <- Fetch(...) }():
\* the folder INBOX lists toSend; the producer fails after failAfter messages, or never
\* when failAfter is -1
StartFetch ==
    /\ fetch = NoFetch
    /\ last = NoOp
    /\ StatusMessages(mailboxes["INBOX"]) > 0
    /\ \E kind \in FetchKinds, failAfter \in -1..MaxUid, rules \in CliConfigs :
          LET toSend == ListMessages(mailboxes["INBOX"], FALSE,
                                     1..StatusMessages(mailboxes["INBOX"]))
          IN  /\ failAfter <= Len(toSend)
              /\ kind # "run" => rules = <<>>
              /\ fetch' = [kind |-> kind, toSend |-> toSend, failAfter |-> failAfter,
                           rules |-> rules, sent |-> 0, queue |-> <<>>, closed |-> FALSE,
                           done |-> <<>>, ppc |-> "send", cpc |-> "range",
                           result |-> <<>>, ret |-> <<>>]
    /\ UNCHANGED <<mailboxes, copyMode, faultsLeft, rulesTable, conn, threads, probe, last>>

\* the messages the producer sends before it ends
ToSend == IF fetch.failAfter = -1 THEN Len(fetch.toSend) ELSE fetch.failAfter

\* Fetch writes one message to the channel; it waits while the channel is full
ProducerSend ==
    /\ fetch # NoFetch /\ fetch.ppc = "send"
    /\ fetch.sent < ToSend
    /\ Len(fetch.queue) < QueueCap
    /\ fetch' = [fetch EXCEPT !.queue = Append(@, fetch.toSend[fetch.sent + 1]),
                              !.sent = @ + 1]
    /\ UNCHANGED <<mailboxes, copyMode, faultsLeft, rulesTable, conn, threads, probe, last>>

\* Fetch ends: the channel is closed, with or without an error
ProducerClose ==
    /\ fetch # NoFetch /\ fetch.ppc = "send"
    /\ fetch.sent = ToSend
    /\ fetch' = [fetch EXCEPT !.closed = TRUE, !.ppc = "done"]
    /\ UNCHANGED <<mailboxes, copyMode, faultsLeft, rulesTable, conn, threads, probe, last>>

\* done <- err: the channel has room for it
ProducerDone ==
    /\ fetch # NoFetch /\ fetch.ppc = "done"
    /\ fetch' = [fetch EXCEPT !.done = <<fetch.failAfter # -1>>, !.ppc = "end"]
    /\ UNCHANGED <<mailboxes, copyMode, faultsLeft, rulesTable, conn, threads, probe, last>>

\* what the body of the range loop appends for one message
Consumed(kind, rules, msg) ==
    CASE kind = "FetchMessages" -> <<ToMessage(msg)>>
      [] kind = "FetchEmails" -> <<ToEmail(msg)>>
      [] OTHER -> RunMatches(<<msg>>, rules, 1)

\* a consumer that waits for the completion value before it reads the messages
ConsumerRecv_AfterDone ==
    /\ fetch # NoFetch /\ fetch.cpc = "range"
    /\ fetch.queue # <<>>
    /\ fetch.done # <<>>
    /\ fetch' = [fetch EXCEPT !.queue = Tail(@),
                              !.result = @ \o Consumed(fetch.kind, fetch.rules, Head(fetch.queue))]
    /\ UNCHANGED <<mailboxes, copyMode, faultsLeft, rulesTable, conn, threads, probe, last>>

\* for msg := range messages: one iteration
ConsumerRecv ==
    /\ fetch # NoFetch /\ fetch.cpc = "range"
    /\ fetch.queue # <<>>
    /\ fetch' = [fetch EXCEPT !.queue = Tail(@),
                              !.result = @ \o Consumed(fetch.kind, fetch.rules, Head(fetch.queue))]
    /\ UNCHANGED <<mailboxes, copyMode, faultsLeft, rulesTable, conn, threads, probe, last>>

\* a consumer that returns what it has as soon as the channel is closed and empty
ConsumerRangeEnd_SkipsDone ==
    /\ fetch # NoFetch /\ fetch.cpc = "range"
    /\ fetch.queue = <<>> /\ fetch.closed
    /\ fetch' = [fetch EXCEPT !.cpc = "returned",
                              !.ret = <<[err |-> FALSE, msgs |-> fetch.result]>>]
    /\ UNCHANGED <<mailboxes, copyMode, faultsLeft, rulesTable, conn, threads, probe, last>>

\* the range loop ends: the channel is closed and empty
ConsumerRangeEnd ==
    /\ fetch # NoFetch /\ fetch.cpc = "range"
    /\ fetch.queue = <<>> /\ fetch.closed
    /\ fetch' = [fetch EXCEPT !.cpc = "recvDone"]
    /\ UNCHANGED <<mailboxes, copyMode, faultsLeft, rulesTable, conn, threads, probe, last>>

\* if err := <-done; err != nil { return nil, err }; return result, nil
\* (FetchMessages reverses the result first)
ConsumerRecvDone ==
    /\ fetch # NoFetch /\ fetch.cpc = "recvDone"
    /\ fetch.done # <<>>
    /\ fetch' = [fetch EXCEPT
           !.done = <<>>, !.cpc = "returned",
           !.ret = IF Head(fetch.done) THEN <<[err |-> TRUE, msgs |-> <<>>]>>
                   ELSE <<[err |-> FALSE,
                           msgs |-> IF fetch.kind = "FetchMessages"
                                    THEN Reverse(fetch.result) ELSE fetch.result]>>]
    /\ UNCHANGED <<mailboxes, copyMode, faultsLeft, rulesTable, conn, threads, probe, last>>

\* the caller goes on with what the fetch returned
FetchOver ==
    /\ fetch # NoFetch /\ fetch.cpc = "returned" /\ fetch.ppc = "end"
    /\ fetch' = NoFetch
    /\ UNCHANGED <<mailboxes, copyMode, faultsLeft, rulesTable, conn, threads, probe, last>>

NextFetch ==
    \/ AddMessage("INBOX", S_news, <<>>, 0)
    \/ AddMessage("INBOX", S_friend, <<>>, 0)
    \/ StartFetch
    \/ ProducerSend
    \/ ProducerClose
    \/ ProducerDone
    \/ ConsumerRecv
    \/ ConsumerRangeEnd
    \/ ConsumerRecvDone
    \/ FetchOver

SpecFetch == TypeInit /\ [][NextFetch]_vars

-----------------------------------------------------------------------------
(* Live preview requests on a mailbox that fills up *)

NextPreview ==
    \/ AddMessage("INBOX", S_news, <<>>, 0)
    \/ AddMessage("INBOX", S_friend, <<>>, 0)
    \/ \E in \in RuleInputs : CreateRule(in)
    \/ DoLivePreview(0..3)
    \/ Return

SpecPreview == TypeInit /\ [][NextPreview]_vars

-----------------------------------------------------------------------------
(* C3: the counts after a real apply *)

StoreOps == {"PreviewRules", "LivePreview", "ApplyRules"}

\* rule r of the last operation applies to a sender
Applies(r, from) ==
    IF last.op = "run" THEN Contains(ToLower(from), ToLower(r.Sender))
    ELSE r.Enabled /\ Contains(ToLower(from), ToLower(r.Pattern))

\* the UIDs of the messages the source folder lists that some rule of the last
\* operation matches
MatchedInSource ==
    LET box == last.before[last.src].messages
    IN  {box[i].uid : i \in {k \in 1..Len(box) :
            /\ ~box[k].deleted
            /\ \E j \in 1..Len(last.rules) : Applies(last.rules[j], box[k].from)}}

\* an apply that was asked to move: not a dry run, the store and the network worked,
\* the source and the destination exist
RealApply ==
    /\ last.op \in {"ApplyRules", "run"}
    /\ ~last.dryRun
    /\ last.env = "ok" /\ last.faultAt = 0
    /\ {last.src, "Archive"} \subseteq DOMAIN last.before

\* C3: when k messages of the source match a move rule whose destination exists, after
\* a real apply the source holds k messages fewer, the destination k more, and every
\* unmatched message is still in the source
C3_MoveCounts ==
    RealApply =>
        LET k == Cardinality(MatchedInSource)
        IN  /\ GetMessageCount(last.after, last.src)
                  = GetMessageCount(last.before, last.src) - k
            /\ GetMessageCount(last.after, "Archive")
                  = GetMessageCount(last.before, "Archive") + k
            /\ UidsOf(last.before[last.src]) \ MatchedInSource
                  \subseteq UidsOf(last.after[last.src])

-----------------------------------------------------------------------------
(* C5, C6: first match *)

RECURSIVE SumOver(_, _)
\* the sum of f over the set d of its arguments
SumOver(f, d) ==
    IF d = {} THEN 0
    ELSE LET x == CHOOSE y \in d : TRUE IN f[x] + SumOver(f, d \ {x})

\* the last operation produced a PreviewResult
HasResult == last.op \in StoreOps /\ last.result # NoResult

\* the positions of the result whose message carries a matched rule
Matched(result) == {i \in 1..Len(result.Messages) : result.Messages[i].MatchedRule # NoRule}

\* the copy commands of the last operation that name uid
CopiesOf(uid) == {i \in 1..Len(last.log) : last.log[i].cmd = "copy" /\ uid \in last.log[i].arg}

\* C5: under first match a message is listed once and has one matched rule at most, it
\* is counted in rule_matches for that rule only, and one run issues at most one copy
\* for it
C5_AtMostOneRule ==
    /\ HasResult =>
          LET res == last.result
          IN  /\ \A i, j \in 1..Len(res.Messages) :
                     res.Messages[i].UID = res.Messages[j].UID => i = j
              /\ res.MatchedMessages = Cardinality(Matched(res))
              /\ \A id \in DOMAIN res.RuleMatches :
                     res.RuleMatches[id]
                         = Cardinality({i \in Matched(res) : res.Messages[i].MatchedRule.ID = id})
              /\ SumOver(res.RuleMatches, DOMAIN res.RuleMatches) = Cardinality(Matched(res))
    /\ last.op = "run" =>
          \A i, j \in 1..Len(last.matches) :
              last.matches[i].UID = last.matches[j].UID => i = j
    /\ last.op \in StoreOps \cup {"run"} =>
          \A uid \in 1..(MaxUid + 1) : Cardinality(CopiesOf(uid)) <= 1

\* a result in which two enabled rules match one message
C5_Witness ==
    /\ HasResult
    /\ \E i \in Matched(last.result) :
          \E j, k \in 1..Len(last.rules) :
              /\ j # k
              /\ Applies(last.rules[j], last.result.Messages[i].From)
              /\ Applies(last.rules[k], last.result.Messages[i].From)

\* r comes before q in the order priority descending, name ascending
Before(r, q) ==
    \/ r.Priority > q.Priority
    \/ r.Priority = q.Priority /\ LexLess(r.Name, q.Name)

\* the rows of the store that are enabled and match a sender
EnabledMatching(from) ==
    {j \in 1..Len(rulesTable) :
        rulesTable[j].Enabled /\ Contains(ToLower(from), ToLower(rulesTable[j].Pattern))}

-----------------------------------------------------------------------------
(* C4: dry run *)

\* the message as the engine sees it
AsEmail(m) ==
    [UID |-> m.uid, Flags |-> m.flags, Size |-> U32(0, 0), Subject |-> m.subject,
     Date |-> m.date, From |-> m.from, To |-> <<>>, HasAttachment |-> FALSE]

\* the UIDs, in mailbox order, of the messages that the folder of rule lists in boxes
\* and that satisfy the rule's conditions
Satisfying(boxes, rule) ==
    LET box == boxes[rule.Folder].messages
        hit == FilterSeq(box, {k \in 1..Len(box) :
                   ~box[k].deleted /\ matchConditions(AsEmail(box[k]), rule.Conditions, Today)})
    IN  [i \in 1..Len(hit) |-> hit[i].uid]

\* rule run i of the last ExecuteAll reached its match step
RanToMatch(i) ==
    /\ last.rules[i].Account \in ConfigAccounts
    /\ last.rules[i].Folder \in DOMAIN last.runs[i].before
    /\ \A k \in 1..Len(last.runs[i].log) :
          last.runs[i].log[k].cmd \in {"select", "fetch"} => last.runs[i].log[k].ok
    /\ last.runs[i].opened

DryRun == last.op \in {"ApplyRules", "run", "ExecuteAll"} /\ last.dryRun

\* C4: in dry-run mode no store, copy or expunge is issued, every folder has the same
\* messages and flags after the run as before it, and the matches are still reported
C4_DryRunChangesNothing ==
    DryRun =>
        /\ \A i \in 1..Len(last.log) : last.log[i].cmd \notin MutationCmds
        /\ last.after = last.before
        /\ (last.op = "ApplyRules" /\ ~last.err) =>
              /\ last.result # NoResult
              /\ {last.result.Messages[i].UID : i \in Matched(last.result)} = MatchedInSource
        /\ (last.op = "run" /\ ~last.err) =>
              {last.matches[i].UID : i \in 1..Len(last.matches)} = MatchedInSource
        /\ last.op = "ExecuteAll" =>
              \A i \in 1..Len(last.runs) :
                  RanToMatch(i) =>
                      last.runs[i].matched = Satisfying(last.runs[i].before, last.rules[i])

\* a dry run of the engine whose delete rule matched a message
C4_Witness ==
    /\ DryRun
    /\ last.op = "ExecuteAll"
    /\ \E i \in 1..Len(last.runs) :
          last.rules[i].Action.Type = "delete" /\ last.runs[i].matched # <<>>

-----------------------------------------------------------------------------
(* C7, C8: the batch strategy *)

IsExecuteAll == last.op = "ExecuteAll"

\* the store and copy commands of rule run i
Acts(i) ==
    {k \in 1..Len(last.runs[i].log) : last.runs[i].log[k].cmd \in {"store", "copy"}}

\* C7: ExecuteAll runs the rules one at a time in configuration order, each on the
\* mailbox the rule before it left; a rule's action is applied to every message of its
\* folder that satisfies its conditions at its own fetch, so a message that satisfies
\* two rules and is still there for the second is acted on by both
C7_BatchInOrder ==
    IsExecuteAll =>
        /\ \A i \in 1..Len(last.runs) :
              /\ last.runs[i].rule = i
              /\ last.runs[i].before = IF i = 1 THEN last.before ELSE last.runs[i - 1].after
        /\ last.runs # <<>> => last.after = last.runs[Len(last.runs)].after
        /\ \A i \in 1..Len(last.runs) :
              RanToMatch(i) =>
                  LET sat == Satisfying(last.runs[i].before, last.rules[i])
                  IN  /\ last.runs[i].matched = sat
                      /\ (sat # <<>> /\ ~last.dryRun) =>
                            /\ Acts(i) # {}
                            /\ \A k \in Acts(i) : last.runs[i].log[k].arg = SeqToSet(sat)

\* a run in which two rules in turn acted on one message, the first of them on two
C7_Witness ==
    /\ IsExecuteAll /\ ~last.dryRun /\ Len(last.runs) = 2
    /\ Len(last.runs[1].matched) = 2
    /\ \E u \in SeqToSet(last.runs[1].matched) \cap SeqToSet(last.runs[2].matched) :
          \A i \in 1..2 : \E k \in Acts(i) : last.runs[i].log[k].ok /\ u \in last.runs[i].log[k].arg

\* C8: ExecuteAll attempts every configured rule exactly once whatever fails, and
\* returns no error: a rule of a known account gets its connection unless the
\* connection itself fails, and a rule of an unknown account gets none
C8_EveryRuleAttempted ==
    IsExecuteAll =>
        /\ ~last.err
        /\ Len(last.runs) = Len(last.rules)
        /\ \A i \in 1..Len(last.runs) :
              /\ last.runs[i].rule = i
              /\ last.runs[i].opened
                    <=> /\ last.rules[i].Account \in ConfigAccounts
                        /\ ~(last.fault.rule = i /\ last.fault.at = 0)
              /\ last.runs[i].opened => last.runs[i].log # <<>>

\* a run whose first rule failed and whose second rule then matched and acted
C8_Witness ==
    /\ IsExecuteAll /\ ~last.dryRun /\ Len(last.rules) = 2
    /\ last.runs[1].err
    /\ last.runs[2].matched # <<>>
    /\ \E k \in Acts(2) : last.runs[2].log[k].ok

-----------------------------------------------------------------------------
(* C9: the end of a fetch *)

FetchReturned == fetch # NoFetch /\ fetch.cpc = "returned"

\* what the consumer builds from all the messages of the folder, in the order returned
AllOf(kind, rules, msgs) ==
    CASE kind = "FetchMessages" -> Reverse([i \in 1..Len(msgs) |-> ToMessage(msgs[i])])
      [] kind = "FetchEmails" -> [i \in 1..Len(msgs) |-> ToEmail(msgs[i])]
      [] OTHER -> RunMatches(msgs, rules, 1)

\* C9: a fetch has returned only if the producer closed the queue, the queue was
\* drained of every message sent and the completion value was received; after a
\* producer error it returns the error and no messages, and otherwise all of them
C9_FetchReturnsAfterDrain ==
    FetchReturned =>
        /\ fetch.closed /\ fetch.queue = <<>>
        /\ fetch.ppc = "end" /\ fetch.done = <<>>
        /\ Len(fetch.ret) = 1
        /\ IF fetch.failAfter # -1
           THEN fetch.ret[1] = [err |-> TRUE, msgs |-> <<>>]
           ELSE fetch.ret[1] = [err |-> FALSE,
                                msgs |-> AllOf(fetch.kind, fetch.rules, fetch.toSend)]

\* a fetch that returned the error of a producer that failed after sending a message
C9_Witness ==
    /\ FetchReturned
    /\ fetch.failAfter >= 1
    /\ fetch.ret[1].err

-----------------------------------------------------------------------------
(* C10: the events of one preview request *)

IsLivePreview == last.op = "LivePreview"

\* the stages of the progress events, in the order sent
StagesOf(events) ==
    LET prog == FilterSeq(events, {i \in 1..Len(events) : events[i].Type = "progress"})
    IN  [i \in 1..Len(prog) |-> prog[i].Stage]

StageOrder == <<"connecting", "connected", "selecting", "fetching", "processing">>

\* C10: the stages of the progress events of a request are a prefix of connecting,
\* connected, selecting, fetching, processing, with processing alone repeated, and
\* the request ends with one result or error event, the last event sent for it
C10_StagesInOrder ==
    IsLivePreview =>
        LET ev == last.events
            st == StagesOf(ev)
        IN  /\ \A i \in 1..Len(st) :
                  st[i] = IF i <= Len(StageOrder) THEN StageOrder[i] ELSE "processing"
            /\ ev # <<>>
            /\ ev[Len(ev)].Type \in {"result", "error"}
            /\ \A i \in 1..(Len(ev) - 1) : ev[i].Type = "progress"
            /\ ev[Len(ev)].Type = "result" => Len(st) >= Len(StageOrder)

\* a request that went through every stage, processed two messages and sent its result
C10_Witness ==
    /\ IsLivePreview
    /\ last.events[Len(last.events)].Type = "result"
    /\ Len(StagesOf(last.events)) = Len(StageOrder) + 2

-----------------------------------------------------------------------------
(* C11: one processing event per message *)

\* the progress events of the last request that carry a message, in the order sent
WithMessage(events) ==
    FilterSeq(events, {i \in 1..Len(events) :
                          events[i].Type = "progress" /\ "MessageData" \in DOMAIN events[i]})

\* the last request fetched its messages and sent its result
PreviewSucceeded ==
    /\ IsLivePreview
    /\ last.events[Len(last.events)].Type = "result"

\* the messages the fetch of the last request returned: the last limit messages the
\* folder lists, newest first
FetchedBy(boxes, folder, limit) ==
    LET listed == ListMessages(boxes[folder], FALSE, 1..StatusMessages(boxes[folder]))
        from   == FetchFrom(StatusMessages(boxes[folder]), limit)
    IN  Reverse(FilterSeq(listed, {i \in 1..Len(listed) : listed[i].SeqNum >= from}))

\* C11: after a successful fetch of N messages the live preview sends one progress
\* event per message, with stage processing and the message's data, current = 1..N
\* in this order and total = N, all of them before the result event
C11_OneEventPerMessage ==
    PreviewSucceeded =>
        LET ev  == last.events
            pm  == WithMessage(ev)
            got == FetchedBy(last.before, last.src,
                             IF last.req.Limit = 0 THEN DefaultLimit ELSE last.req.Limit)
            N   == Len(got)
        IN  /\ Len(pm) = N
            /\ last.result.TotalMessages = N
            /\ \A k \in 1..N :
                  /\ pm[k].Stage = "processing"
                  /\ pm[k].Current = k
                  /\ pm[k].Total = N
                  /\ pm[k].MessageData = last.result.Messages[k]
                  /\ pm[k].MessageData.UID = got[k].Uid
            /\ \A i \in 1..Len(ev) :
                  "MessageData" \in DOMAIN ev[i] => i < Len(ev)

\* a preview of two messages, one of them matched by a rule and one by none
C11_Witness ==
    /\ PreviewSucceeded
    /\ Len(WithMessage(last.events)) = 2
    /\ \E i, j \in 1..2 :
          /\ WithMessage(last.events)[i].MessageData.MatchedRule # NoRule
          /\ WithMessage(last.events)[j].MessageData.MatchedRule = NoRule

-----------------------------------------------------------------------------
(* One live-preview connection, step by step: the client end sends control *)
(* messages and may close; the server end is the read loop of              *)
(* HandleLivePreview and the pipeline of handlePreviewRequest.             *)

MaxSends == 2      \* messages the client sends on one connection

NoPayload == [Empty |-> TRUE]

PingMsg == [Type |-> "ping", Payload |-> NoPayload]

\* a control message of a type the read loop does not know
UnknownMsg == [Type |-> "subscribe", Payload |-> NoPayload]

PreviewMsg(payload) == [Type |-> "preview", Payload |-> payload]

\* a frame that is not the JSON of a control message
BadFrame == [Type |-> "not JSON", Payload |-> NoPayload]

PongEvent == [Type |-> "pong"]

\* the payloads the client of this connection sends
ConnPayloads ==
    {InvalidPayload, [Folder |-> NoFolder, Limit |-> 0], [Folder |-> NoFolder, Limit |-> 1],
     [Folder |-> "Nowhere", Limit |-> 0]}

ClientMessages == {PingMsg, UnknownMsg, BadFrame} \cup {PreviewMsg(p) : p \in ConnPayloads}

\* a read loop that starts the pipeline in a goroutine of its own
Dispatch_InGoroutine == "go"

\* case "preview": h.handlePreviewRequest(conn, msg.Payload), a plain call
Dispatch == "call"

\* a read loop that answers every message it does not act on with an error
ReplyTo_NoPong(msg) == ErrorEvent

\* case "ping": a pong; default: an error
ReplyTo(msg) == IF msg.Type = "ping" THEN PongEvent ELSE ErrorEvent

\* a read loop that gives up the connection after a request that failed
LoopAfter_BreaksOnError(failed) == IF failed THEN "done" ELSE "read"

\* the for loop goes round again whatever the request came to
LoopAfter(failed) == "read"

\* the upgraded connection: the read loop is about to read, no request is in progress
NewConn(boxes) ==
    [open |-> TRUE, sentMsgs |-> <<>>, inbox |-> <<>>, out |-> <<>>, handled |-> <<>>,
     rpc |-> "read", ppc |-> "idle", pgo |-> "reader",
     req |-> NoPayload, env |-> "ok", rules |-> <<>>, cur |-> <<>>,
     c |-> [NewSession(boxes, 0) EXCEPT !.open = FALSE],
     msgs |-> <<>>, i |-> 0, res |-> NoResult]

\* conn.WriteJSON by goroutine by; the error of a write to a closed connection is dropped
ConnWrite(cn, by, ev) ==
    [cn EXCEPT !.out = Append(@, [ev |-> ev, by |-> by, ok |-> cn.open])]

\* a write of the pipeline
PvWrite(cn, ev) ==
    [ConnWrite(cn, cn.pgo, ev) EXCEPT !.cur = Append(@, [ev |-> ev, ok |-> cn.open])]

\* handlePreviewRequest returns: the deferred client.Close() runs, the read loop resumes
PvReturn(cn) ==
    [cn EXCEPT !.ppc = "idle",
               !.rpc = IF @ = "inCall"
                       THEN LoopAfter(cn.cur[Len(cn.cur)].ev.Type = "error") ELSE @,
               !.c = ConnLogout(@),
               !.handled = Append(@, [msg |-> PreviewMsg(cn.req), events |-> cn.cur,
                                      env |-> cn.env, rules |-> cn.rules,
                                      faultAt |-> cn.c.faultAt, by |-> cn.pgo]),
               !.cur = <<>>, !.msgs = <<>>, !.i = 0, !.res = NoResult]

\* the client writes one frame on the connection it has open
ClientSend(msg) ==
    /\ conn.open
    /\ conn.rpc # "done"
    /\ Len(conn.sentMsgs) < MaxSends
    /\ conn' = [conn EXCEPT !.inbox = Append(@, msg),
                            !.sentMsgs = Append(@, [msg |-> msg, during |-> conn.ppc])]
    /\ UNCHANGED <<mailboxes, copyMode, faultsLeft, rulesTable, fetch, threads, probe, last>>

\* the client closes its end
ClientClose ==
    /\ conn.open
    /\ conn' = [conn EXCEPT !.open = FALSE]
    /\ UNCHANGED <<mailboxes, copyMode, faultsLeft, rulesTable, fetch, threads, probe, last>>

\* conn.ReadJSON returns a message that is not a preview: the reply is written
ReadControl ==
    /\ conn.rpc = "read"
    /\ conn.inbox # <<>>
    /\ Head(conn.inbox) # BadFrame
    /\ Head(conn.inbox).Type # "preview"
    /\ \E msg \in {Head(conn.inbox)} :
          conn' = [ConnWrite(conn, "reader", ReplyTo(msg))
                       EXCEPT !.inbox = Tail(@),
                              !.rpc = LoopAfter(ReplyTo(msg).Type = "error"),
                              !.handled = Append(@, [msg |-> msg, by |-> "reader",
                                   events |-> <<[ev |-> ReplyTo(msg), ok |-> conn.open]>>])]
    /\ UNCHANGED <<mailboxes, copyMode, faultsLeft, rulesTable, fetch, threads, probe, last>>

\* conn.ReadJSON returns a preview message: handlePreviewRequest is entered
ReadPreview ==
    /\ conn.rpc = "read"
    /\ conn.ppc = "idle"
    /\ conn.inbox # <<>>
    /\ Head(conn.inbox).Type = "preview"
    /\ conn' = [conn EXCEPT !.inbox = Tail(@), !.req = Head(conn.inbox).Payload,
                            !.ppc = "start",
                            !.rpc = IF Dispatch = "call" THEN "inCall" ELSE "read",
                            !.pgo = IF Dispatch = "call" THEN "reader" ELSE "preview"]
    /\ UNCHANGED <<mailboxes, copyMode, faultsLeft, rulesTable, fetch, threads, probe, last>>

\* conn.ReadJSON fails, on the connection the client closed or on a frame that is not
\* JSON: break, and the deferred conn.Close()
ReadFails ==
    /\ conn.rpc = "read"
    /\ \/ conn.inbox = <<>> /\ ~conn.open
       \/ conn.inbox # <<>> /\ Head(conn.inbox) = BadFrame
    /\ conn' = [conn EXCEPT !.rpc = "done"]
    /\ UNCHANGED <<mailboxes, copyMode, faultsLeft, rulesTable, fetch, threads, probe, last>>

\* json.Unmarshal, the defaults, the "connecting" event
PvStart ==
    /\ conn.ppc = "start"
    /\ conn' = IF conn.req = InvalidPayload
               THEN PvReturn(PvWrite(conn, ErrorWith("invalid preview request")))
               ELSE [PvWrite(conn, Progress("connecting", 0, 0)) EXCEPT !.ppc = "open"]
    /\ UNCHANGED <<mailboxes, copyMode, faultsLeft, rulesTable, fetch, threads, probe, last>>

\* GetAccount, ListRules, Connect, the "connected" event; the session the request gets
\* fails at its command faultAt
PvOpen(faults) ==
    /\ conn.ppc = "open"
    /\ \E env \in Envs, faultAt \in faults :
          \E rules \in ListRules(rulesTable, AccountOf(env)) :
             /\ env = "ok" \/ (conn.req = [Folder |-> NoFolder, Limit |-> 0] /\ faultAt = 0)
             /\ faultAt = 0 \/ faultsLeft > 0
             /\ faultsLeft' = IF faultAt = 0 THEN faultsLeft ELSE faultsLeft - 1
             /\ conn' = IF env # "ok"
                        THEN PvReturn(PvWrite([conn EXCEPT !.env = env],
                                              CASE env = "noAccount" ->
                                                       ErrorWith("account not found")
                                                [] env = "listFails" ->
                                                       ErrorWith("failed to load rules")
                                                [] OTHER -> ErrorEvent))
                        ELSE [PvWrite(conn, Progress("connected", 0, 0))
                                  EXCEPT !.ppc = "select", !.env = env, !.rules = rules,
                                         !.c = NewSession(mailboxes, faultAt)]
    /\ UNCHANGED <<mailboxes, copyMode, rulesTable, fetch, threads, probe, last>>

\* the "selecting" event, client.SelectFolder, the "fetching" event
PvSelect ==
    /\ conn.ppc = "select"
    /\ \E c1 \in {SelectFolder(conn.c, DefaultFolder(conn.req.Folder))} :
       \E cn \in {[PvWrite(conn, Progress("selecting", 0, 0)) EXCEPT !.c = c1]} :
          conn' = IF c1.err THEN PvReturn(PvWrite(cn, ErrorEvent))
                  ELSE [PvWrite(cn, Progress("fetching", 0, c1.status))
                            EXCEPT !.ppc = "fetch"]
    /\ UNCHANGED <<mailboxes, copyMode, faultsLeft, rulesTable, fetch, threads, probe, last>>

\* client.FetchMessages, the "processing" event, the empty result
PvFetch ==
    /\ conn.ppc = "fetch"
    /\ \E f \in {FetchMessages(conn.c, IF conn.req.Limit = 0 THEN DefaultLimit
                                       ELSE conn.req.Limit)} :
          conn' = IF f.err THEN PvReturn(PvWrite([conn EXCEPT !.c = f.c], ErrorEvent))
                  ELSE [PvWrite(conn, Progress("processing", 0, Len(f.msgs)))
                            EXCEPT !.ppc = "process", !.c = f.c, !.msgs = f.msgs, !.i = 1,
                                   !.res = [TotalMessages |-> Len(f.msgs),
                                            MatchedMessages |-> 0, Messages |-> <<>>,
                                            RuleMatches |-> EmptyMap]]
    /\ UNCHANGED <<mailboxes, copyMode, faultsLeft, rulesTable, fetch, threads, probe, last>>

\* one round of the loop over the messages: the first enabled rule that matches, the
\* event with the message
PvProcess ==
    /\ conn.ppc = "process"
    /\ conn.i <= Len(conn.msgs)
    /\ \E acc \in {RecordHits([msg |-> conn.msgs[conn.i], matched |-> conn.res.MatchedMessages,
                               ruleMatches |-> conn.res.RuleMatches],
                              conn.rules, WsHits(conn.msgs[conn.i], conn.rules), 1)} :
          conn' = [PvWrite(conn, ProgressWithMessage("processing", conn.i, Len(conn.msgs),
                                                     acc.msg))
                       EXCEPT !.i = conn.i + 1,
                              !.res = [conn.res EXCEPT !.Messages = Append(@, acc.msg),
                                                       !.MatchedMessages = acc.matched,
                                                       !.RuleMatches = acc.ruleMatches]]
    /\ UNCHANGED <<mailboxes, copyMode, faultsLeft, rulesTable, fetch, threads, probe, last>>

\* the loop is over: the "result" event, and the request returns
PvResult ==
    /\ conn.ppc = "process"
    /\ conn.i > Len(conn.msgs)
    /\ conn' = PvReturn(PvWrite(conn, ResultEvent(conn.res)))
    /\ UNCHANGED <<mailboxes, copyMode, faultsLeft, rulesTable, fetch, threads, probe, last>>

\* the steps of the goroutine that serves the connection
ServerStep ==
    \/ ReadControl \/ ReadPreview \/ ReadFails
    \/ PvStart \/ PvOpen(0..3) \/ PvSelect \/ PvFetch \/ PvProcess \/ PvResult

\* a store with one rule, a mailbox with a message the rule matches and one it does not
InitConn ==
    /\ mailboxes = TwoMessages
    /\ copyMode = "mailbox"
    /\ faultsLeft = MaxFaults
    /\ rulesTable = <<NewRuleRow(<<>>, RuleInput(N_a, <<"n">>, TRUE, 2))>>
    /\ fetch = NoFetch
    /\ conn = NewConn(mailboxes)
    /\ threads = NoThreads
    /\ probe = NoProbe
    /\ last = NoOp

NextConn ==
    \/ \E msg \in ClientMessages : ClientSend(msg)
    \/ ClientClose
    \/ ServerStep

SpecConn == InitConn /\ [][NextConn]_vars

\* the goroutine of the connection is scheduled again and again, and every call it
\* makes returns
SpecConnLive == SpecConn /\ WF_vars(ServerStep)

-----------------------------------------------------------------------------
(* The live-preview connection: pings, failed requests, the closed client  *)

PingsSent == Cardinality({k \in 1..Len(conn.sentMsgs) : conn.sentMsgs[k].msg.Type = "ping"})

\* the pongs that reached the client
PongsDelivered ==
    Cardinality({k \in 1..Len(conn.out) : conn.out[k].ev.Type = "pong" /\ conn.out[k].ok})

\* the events the handler computes for the request of h taken alone
EventsOf(h) ==
    handlePreviewRequest(mailboxes, AccountOf(h.env), h.msg.Payload, h.rules,
                         h.env # "listFails", h.env # "connectFails", h.faultAt).events

Written(h) == [k \in 1..Len(h.events) |-> h.events[k].ev]

HandledPreviews == {k \in 1..Len(conn.handled) : conn.handled[k].msg.Type = "preview"}

\* every preview the connection has served wrote the events of its request, whatever
\* else was sent meanwhile
PreviewUndisturbed ==
    \A k \in HandledPreviews : Written(conn.handled[k]) = EventsOf(conn.handled[k])

\* the connection is no longer live: the client closed it, or the read loop has ended
ConnOver == ~conn.open \/ conn.rpc = "done"

\* C12: a ping sent at any time on a live-preview connection, also while a preview is
\* being processed, receives a pong as long as the connection lives, and every
\* preview writes the events and the result it writes when no ping is sent.
C12_PingGetsPong ==
    /\ [](PreviewUndisturbed)
    /\ \A k \in 1..MaxSends : (PingsSent >= k) ~> (PongsDelivered >= k \/ ConnOver)

\* a ping sent during the loop over the messages got its pong after the result
C12_Witness ==
    /\ Len(conn.sentMsgs) = 2
    /\ conn.sentMsgs[1].msg = PreviewMsg([Folder |-> NoFolder, Limit |-> 0])
    /\ conn.sentMsgs[2] = [msg |-> PingMsg, during |-> "process"]
    /\ Len(conn.handled) = 2
    /\ conn.handled[1].events[Len(conn.handled[1].events)].ev.Type = "result"
    /\ conn.handled[1].events[Len(conn.handled[1].events)].ev.Payload.MatchedMessages = 1
    /\ conn.handled[2].msg = PingMsg
    /\ PongsDelivered = 1

\* the request of h fails: its type is unknown, or the handler computes no result for it
Fails(h) ==
    IF h.msg.Type = "preview"
    THEN handlePreviewRequest(mailboxes, AccountOf(h.env), h.msg.Payload, h.rules,
                              h.env # "listFails", h.env # "connectFails",
                              h.faultAt).result = NoResult
    ELSE h.msg.Type # "ping"

ErrorsOf(h) == {k \in 1..Len(h.events) : h.events[k].ev.Type = "error"}

\* a failed request wrote one error event, the last of its events, and no result
FailedRequestsReported ==
    \A k \in 1..Len(conn.handled) :
        Fails(conn.handled[k]) =>
            /\ ErrorsOf(conn.handled[k]) = {Len(conn.handled[k].events)}
            /\ \A j \in 1..Len(conn.handled[k].events) :
                  conn.handled[k].events[j].ev.Type # "result"

\* the read loop ends only when the read itself fails
LoopExitsOnlyOnClose ==
    conn.rpc = "done" =>
        \/ ~conn.open /\ conn.inbox = <<>>
        \/ conn.inbox # <<>> /\ Head(conn.inbox) = BadFrame

\* C13: a failed request on a live-preview connection (unknown type, malformed payload,
\* unknown account, rule-load, connect, select or fetch failure) writes an error event
\* and the connection stays open: every message sent on it later is read and handled.
C13_ErrorKeepsConnection ==
    /\ [](FailedRequestsReported /\ LoopExitsOnlyOnClose)
    /\ \A k \in 1..MaxSends :
          (Len(conn.sentMsgs) >= k) ~> (Len(conn.handled) >= k \/ conn.rpc = "done")

\* after a preview of a folder that does not exist, a preview that gets its result
C13_Witness ==
    /\ conn.open
    /\ Len(conn.handled) = 2
    /\ conn.handled[1].msg = PreviewMsg([Folder |-> "Nowhere", Limit |-> 0])
    /\ Fails(conn.handled[1])
    /\ conn.handled[1].events[Len(conn.handled[1].events)] = [ev |-> ErrorEvent, ok |-> TRUE]
    /\ conn.handled[2].msg.Type = "preview"
    /\ conn.handled[2].events[Len(conn.handled[2].events)].ev.Type = "result"
    /\ conn.handled[2].events[Len(conn.handled[2].events)].ok

\* the events of every preview of the connection, served or in progress
PreviewWrites ==
    {conn.handled[k].events : k \in HandledPreviews} \cup {conn.cur}

\* no message is fetched or matched for a request after one of its writes has failed
Abandoned(events) ==
    \A k, j \in 1..Len(events) :
        k < j /\ ~events[k].ok /\ events[j].ev.Type = "progress"
            => events[j].ev.Stage # "processing"

\* C14: when the client closes the connection while a preview is in progress, the server
\* does not go on fetching and matching the remaining messages, and the mailbox session
\* of the request is closed when the request is over.
C14_CloseAbandonsFetch ==
    /\ \A events \in PreviewWrites : Abandoned(events)
    /\ conn.ppc = "idle" => ~conn.c.open

\* C15: the read loop and the pipeline of one connection never overlap: while a preview
\* is in progress the read loop is inside the call and reads and handles nothing, and
\* every write to the connection is made by the one goroutine of the connection.
C15_NoOverlap ==
    /\ conn.ppc # "idle" => conn.rpc = "inCall"
    /\ conn.rpc = "inCall" => conn.ppc # "idle"
    /\ \A k \in 1..Len(conn.out) : conn.out[k].by = "reader"

\* a ping sent while a preview was fetching was answered after the result of that preview
C15_Witness ==
    /\ Len(conn.sentMsgs) = 2
    /\ conn.sentMsgs[1].msg = PreviewMsg([Folder |-> NoFolder, Limit |-> 0])
    /\ conn.sentMsgs[2] = [msg |-> PingMsg, during |-> "fetch"]
    /\ Len(conn.out) = 9
    /\ conn.out[8].ev.Type = "result"
    /\ conn.out[9] = [ev |-> PongEvent, by |-> "reader", ok |-> TRUE]

-----------------------------------------------------------------------------
(* Previews leave the mailbox alone *)

\* the two previews over a store of rules and a mailbox of two messages
NextBothPreviews ==
    \/ \E in \in RuleInputs : CreateRule(in)
    \/ DoPreviewRules(0..3)
    \/ DoLivePreview(0..3)
    \/ Return

SpecBothPreviews == InitRules /\ [][NextBothPreviews]_vars

IsPreview == last.op \in {"PreviewRules", "LivePreview"}

\* C16: handling a preview, on a live-preview connection or by the REST handler, issues
\* no flag store, copy, expunge or folder creation, and the messages, flags and UIDs of
\* every folder are the same after the request as before it.
C16_PreviewChangesNothing ==
    IsPreview =>
        /\ last.after = last.before
        /\ \A i \in 1..Len(last.log) : last.log[i].cmd \notin MutationCmds

\* a REST preview that matched a message whose rule names a folder that exists
C16_Witness ==
    /\ last.op = "PreviewRules"
    /\ ~last.err
    /\ last.result.MatchedMessages >= 1
    /\ last.result.Messages[1].MatchedRule.MoveToFolder \in DOMAIN last.before
    /\ Len(last.log) > 0

-----------------------------------------------------------------------------
(* The mailbox state model taken one operation at a time                   *)

MailboxNames == {"INBOX", "Archive"}

MaxMessages == 2     \* the mailboxes of the user hold no more messages than this

RECURSIVE TotalMessages(_, _)
\* the messages of the folders fs together
TotalMessages(boxes, fs) ==
    IF fs = {} THEN 0
    ELSE LET f == CHOOSE g \in fs : TRUE
         IN  Len(boxes[f].messages) + TotalMessages(boxes, fs \ {f})

\* the flag lists of a store or an append
FlagLists == {<<SeenFlag>>, <<DeletedFlag>>}

FlagOps == {"AddFlags", "RemoveFlags", "SetFlags"}

\* the sequence sets of a command
SeqSets == SUBSET (1..MaxUid) \ {{}}

\* MemoryMailbox.CreateMessage: uid from the counter, the flags as given, the marker unset
MailboxCreateMessage(mbox, flags, date) ==
    [messages |-> Append(mbox.messages,
                         [uid |-> mbox.uidNext, from |-> <<>>, subject |-> <<>>,
                          date |-> date, flags |-> flags, deleted |-> FALSE]),
     uidNext  |-> mbox.uidNext + 1]

\* MemoryUser.DeleteMailbox: INBOX is refused; a missing name is no error
UserDeleteMailbox(boxes, name) ==
    IF name = "INBOX" THEN boxes
    ELSE [f \in DOMAIN boxes \ {name} |-> boxes[f]]

\* MemoryUser.RenameMailbox: the mailbox is stored under the new name, then the old name
\* is deleted
UserRenameMailbox(boxes, existingName, newName) ==
    IF existingName \notin DOMAIN boxes THEN boxes
    ELSE [f \in (DOMAIN boxes \cup {newName}) \ {existingName} |->
             IF f = newName THEN boxes[existingName] ELSE boxes[f]]

\* MemoryMailbox.SearchMessages: the undeleted messages, by UID or by index + 1
SearchMessages(mbox, uid) ==
    LET keep == {i \in 1..Len(mbox.messages) : ~mbox.messages[i].deleted}
    IN  FilterSeq([i \in 1..Len(mbox.messages) |->
                      IF uid THEN mbox.messages[i].uid ELSE i], keep)

\* every mailbox keeps its name
SameNames(boxes) == [f \in DOMAIN boxes |-> f]

\* one operation of the state model: rec names it, boxes is what it leaves, carry tells
\* under which name each mailbox of before lives on ("" when it is dropped)
MailboxOp(rec, boxes, carry) ==
    /\ last = NoOp       \* the operation before it has returned
    /\ WithinBounds(boxes)
    /\ TotalMessages(boxes, DOMAIN boxes) <= MaxMessages
    /\ mailboxes' = boxes
    /\ last' = rec @@ [before |-> mailboxes, after |-> boxes, carry |-> carry]
    /\ UNCHANGED <<copyMode, faultsLeft, rulesTable, fetch, conn, threads, probe>>

DoAddMessage ==
    \E folder \in {"INBOX"} :
        MailboxOp([op |-> "AddMessage", folder |-> folder],
                  BackendAddMessage(mailboxes, folder, S_news, <<>>, 0),
                  SameNames(mailboxes))

DoCreateMessage ==
    \E folder \in DOMAIN mailboxes \cap {"INBOX"}, flags \in FlagLists \cup {<<>>} :
        MailboxOp([op |-> "CreateMessage", folder |-> folder, flags |-> flags],
                  [mailboxes EXCEPT ![folder] = MailboxCreateMessage(@, flags, 0)],
                  SameNames(mailboxes))

DoUpdateMessagesFlags ==
    \E folder \in DOMAIN mailboxes \cap {"INBOX"}, uid \in BOOLEAN, seqSet \in SeqSets,
       flagsOp \in FlagOps, flags \in FlagLists :
        MailboxOp([op |-> "UpdateMessagesFlags", folder |-> folder, uid |-> uid,
                   seqSet |-> seqSet, flagsOp |-> flagsOp, flags |-> flags,
                   matched |-> {i \in 1..Len(mailboxes[folder].messages) :
                                   SeqSetMatch(mailboxes[folder], i, uid, seqSet)}],
                  [mailboxes EXCEPT ![folder] =
                       UpdateMessagesFlags(@, uid, seqSet, flagsOp, flags)],
                  SameNames(mailboxes))

DoExpunge ==
    \E folder \in DOMAIN mailboxes \cap {"INBOX"} :
        MailboxOp([op |-> "Expunge", folder |-> folder],
                  [mailboxes EXCEPT ![folder] = MailboxExpunge(@)],
                  SameNames(mailboxes))

DoListMessages ==
    \E folder \in DOMAIN mailboxes \cap {"INBOX"}, uid \in BOOLEAN, seqSet \in SeqSets :
        MailboxOp([op |-> "ListMessages", folder |-> folder, uid |-> uid,
                   seqSet |-> seqSet,
                   result |-> ListMessages(mailboxes[folder], uid, seqSet)],
                  mailboxes, SameNames(mailboxes))

DoSearchMessages ==
    \E folder \in DOMAIN mailboxes \cap {"INBOX"}, uid \in BOOLEAN :
        MailboxOp([op |-> "SearchMessages", folder |-> folder, uid |-> uid,
                   result |-> SearchMessages(mailboxes[folder], uid)],
                  mailboxes, SameNames(mailboxes))

DoCreateMailbox ==
    \E name \in MailboxNames :
        MailboxOp([op |-> "CreateMailbox", folder |-> name],
                  BackendCreateMailbox(mailboxes, name), SameNames(mailboxes))

DoDeleteMailbox ==
    \E name \in MailboxNames :
        MailboxOp([op |-> "DeleteMailbox", folder |-> name],
                  UserDeleteMailbox(mailboxes, name),
                  [f \in DOMAIN mailboxes |->
                      IF f = name /\ name # "INBOX" THEN NoFolder ELSE f])

\* the mailbox renamed lives on under the new name unless the two names are the same;
\* the mailbox that had the new name is dropped
DoRenameMailbox ==
    \E existingName, newName \in MailboxNames :
        MailboxOp([op |-> "RenameMailbox", folder |-> existingName, newName |-> newName],
                  UserRenameMailbox(mailboxes, existingName, newName),
                  [f \in DOMAIN mailboxes |->
                      IF existingName \notin DOMAIN mailboxes THEN f
                      ELSE IF f = existingName
                           THEN (IF newName = existingName THEN NoFolder ELSE newName)
                           ELSE IF f = newName THEN NoFolder ELSE f])

NextMailbox ==
    \/ DoAddMessage \/ DoCreateMessage \/ DoUpdateMessagesFlags \/ DoExpunge
    \/ DoListMessages \/ DoSearchMessages
    \/ DoCreateMailbox \/ DoDeleteMailbox \/ DoRenameMailbox
    \/ Return

\* NewMemoryBackend: an empty INBOX
InitMailbox ==
    /\ mailboxes = [f \in {"INBOX"} |-> NewMailbox]
    /\ copyMode = "mailbox"
    /\ faultsLeft = MaxFaults
    /\ rulesTable = <<>>
    /\ fetch = NoFetch
    /\ conn = NoConn
    /\ threads = NoThreads
    /\ probe = NoProbe
    /\ last = NoOp

SpecMailbox == InitMailbox /\ [][NextMailbox]_vars

-----------------------------------------------------------------------------
(* The state model: UIDs, sequence numbers, expunge, flags *)

IsMailboxOp ==
    last.op \in {"AddMessage", "CreateMessage", "UpdateMessagesFlags", "Expunge",
                 "ListMessages", "SearchMessages", "CreateMailbox", "DeleteMailbox",
                 "RenameMailbox"}

UidsIn(mbox) == {mbox.messages[i].uid : i \in 1..Len(mbox.messages)}

\* the UIDs in use are below the counter and grow along the list
UidsBelowCounter(mbox) ==
    /\ \A i \in 1..Len(mbox.messages) : mbox.messages[i].uid < mbox.uidNext
    /\ \A i, j \in 1..Len(mbox.messages) : i < j => mbox.messages[i].uid < mbox.messages[j].uid

\* the mailboxes of before that live on after the operation
LivingOn == {f \in DOMAIN last.before : last.carry[f] # NoFolder}

\* C17: in every mailbox of the state model next_uid never decreases and a UID given to
\* a message is greater than every UID given before in that mailbox, whatever AddMessage,
\* CreateMessage, flag update, Expunge or RenameMailbox is executed; a UID freed by
\* Expunge is not given again.
C17_UidsNeverReused ==
    /\ \A f \in DOMAIN mailboxes : UidsBelowCounter(mailboxes[f])
    /\ IsMailboxOp =>
          \A f \in LivingOn :
              /\ last.after[last.carry[f]].uidNext >= last.before[f].uidNext
              /\ \A u \in UidsIn(last.after[last.carry[f]]) \ UidsIn(last.before[f]) :
                    u >= last.before[f].uidNext

\* a message added to a mailbox whose only message was expunged gets the next UID
C17_Witness ==
    /\ last.op = "AddMessage"
    /\ "INBOX" \in DOMAIN last.before
    /\ last.before["INBOX"] = [messages |-> <<>>, uidNext |-> 2]
    /\ UidsIn(last.after["INBOX"]) = {2}

\* a mailbox renamed after an expunge keeps its counter
C17_RenameWitness ==
    /\ last.op = "RenameMailbox"
    /\ "INBOX" \in DOMAIN last.before
    /\ last.before["INBOX"] = [messages |-> <<>>, uidNext |-> 2]
    /\ last.carry["INBOX"] = "Archive"
    /\ last.after["Archive"].uidNext = 2

\* the sequence number of message i: 1 + the undeleted messages before it
SeqNumOf(mbox, i) == 1 + Cardinality({j \in 1..(i - 1) : ~mbox.messages[j].deleted})

Undeleted(mbox) == {i \in 1..Len(mbox.messages) : ~mbox.messages[i].deleted}

\* the index in mbox of the message with this UID
IndexOfUid(mbox, u) == CHOOSE i \in 1..Len(mbox.messages) : mbox.messages[i].uid = u

\* C18: when a mailbox is listed, searched or updated by sequence number, the number used
\* for a message is 1 + the number of undeleted messages before it, so that the numbers
\* of the listed messages are 1..n without gaps.
C18_SequenceNumbers ==
    /\ last.op = "ListMessages" =>
          \A k \in 1..Len(last.result) :
              last.result[k].SeqNum =
                  SeqNumOf(last.before[last.folder],
                           IndexOfUid(last.before[last.folder], last.result[k].Uid))
    /\ (last.op = "SearchMessages" /\ ~last.uid) =>
          last.result = [k \in 1..Cardinality(Undeleted(last.before[last.folder])) |-> k]
    /\ (last.op = "UpdateMessagesFlags" /\ ~last.uid) =>
          \A i \in Undeleted(last.before[last.folder]) :
              i \in last.matched <=> SeqNumOf(last.before[last.folder], i) \in last.seqSet

\* the messages Expunge has to keep, in the order of the list
Kept(mbox) == FilterSeq(mbox.messages, Undeleted(mbox))

FlagsExpected(msg, flagsOp, flags) ==
    CASE flagsOp = "AddFlags"    -> SeqToSet(msg.flags) \cup SeqToSet(flags)
      [] flagsOp = "RemoveFlags" -> SeqToSet(msg.flags) \ SeqToSet(flags)
      [] flagsOp = "SetFlags"    -> SeqToSet(flags)

\* C20: UpdateMessagesFlags leaves a matched message with the flag set: its flags union F
\* for AddFlags(F), its flags minus F for RemoveFlags(F), F for SetFlags(F); a message
\* that is not matched keeps its flags.
C20_FlagSets ==
    last.op = "UpdateMessagesFlags" =>
        \A i \in 1..Len(last.before[last.folder].messages) :
            IF i \in last.matched
            THEN SeqToSet(last.after[last.folder].messages[i].flags)
                     = FlagsExpected(last.before[last.folder].messages[i],
                                     last.flagsOp, last.flags)
            ELSE last.after[last.folder].messages[i].flags
                     = last.before[last.folder].messages[i].flags

\* C21: in every reachable state of the state model the soft-delete marker of a message
\* is set if and only if the deleted token is in its flag list, whatever AddMessage,
\* CreateMessage, AddFlags, RemoveFlags and SetFlags were executed.
C21_MarkerIffToken ==
    \A f \in DOMAIN mailboxes :
        \A i \in 1..Len(mailboxes[f].messages) :
            mailboxes[f].messages[i].deleted
                <=> (DeletedFlag \in SeqToSet(mailboxes[f].messages[i].flags))

-----------------------------------------------------------------------------
(* The locks of the test server: goroutines inside MemoryBackend and MemoryMailbox *)

\* the goroutines that call into the server at the same time: the test's own and the
\* ones serving connections (go s.Serve(listener))
MaxThreads == 2

ThreadIds == 1..MaxThreads

ThreadOps == {"AddMessage", "GetMessageCount", "CreateMessage", "UpdateMessagesFlags",
              "Expunge", "ListMessages", "SearchMessages", "Status"}

AppendOps == {"AddMessage", "CreateMessage"}

\* the operations that change the message list or the UID counter of the mailbox
MutatingOps == {"AddMessage", "CreateMessage", "UpdateMessagesFlags", "Expunge"}

\* the mutex each operation takes in its first statement, and how: be.user.mu for the
\* backend's own methods, m.mu for the methods of MemoryMailbox
LockOf(op) ==
    CASE op = "AddMessage"          -> [mu |-> "user",    mode |-> "w"]
      [] op = "GetMessageCount"     -> [mu |-> "user",    mode |-> "r"]
      [] op = "CreateMessage"       -> [mu |-> "mailbox", mode |-> "w"]
      [] op = "UpdateMessagesFlags" -> [mu |-> "mailbox", mode |-> "w"]
      [] op = "Expunge"             -> [mu |-> "mailbox", mode |-> "w"]
      [] op = "ListMessages"        -> [mu |-> "mailbox", mode |-> "r"]
      [] op = "SearchMessages"      -> [mu |-> "mailbox", mode |-> "r"]
      [] op = "Status"              -> [mu |-> "mailbox", mode |-> "r"]

IdleThread == [op |-> "none", pc |-> "idle", uid |-> 0, msgs |-> <<>>, next |-> 0]

\* the goroutines between Lock and Unlock
InSection(th) == {t \in DOMAIN th : th[t].pc # "idle"}

\* the goroutines that hold mutex mu in mode mode
Holders(th, mu, mode) ==
    {t \in InSection(th) : LockOf(th[t].op) = [mu |-> mu, mode |-> mode]}

\* sync.RWMutex: Lock returns when nobody holds the mutex, RLock when no writer does
CanLock(th, op) ==
    /\ Holders(th, LockOf(op).mu, "w") = {}
    /\ LockOf(op).mode = "w" => Holders(th, LockOf(op).mu, "r") = {}

\* Lock / RLock, the first statement of every operation
ThreadLock(t) ==
    /\ threads[t].pc = "idle"
    /\ \E op \in ThreadOps :
        /\ CanLock(threads, op)
        /\ op \in AppendOps =>
              /\ mailboxes["INBOX"].uidNext <= MaxUid
              /\ Len(mailboxes["INBOX"].messages) < MaxMessages
        /\ threads' = [threads EXCEPT ![t] =
                          [IdleThread EXCEPT !.op = op,
                                             !.pc = IF op \in AppendOps THEN "uid"
                                                    ELSE "body"]]
    /\ UNCHANGED <<mailboxes, copyMode, faultsLeft, rulesTable, fetch, conn, probe, last>>

\* uid: mbox.uidNext in the message literal
AppendReadUid(t) ==
    /\ threads[t].pc = "uid"
    /\ threads' = [threads EXCEPT ![t].uid = mailboxes["INBOX"].uidNext, ![t].pc = "load"]
    /\ UNCHANGED <<mailboxes, copyMode, faultsLeft, rulesTable, fetch, conn, probe, last>>

\* append(mbox.messages, msg) reads the list
AppendLoad(t) ==
    /\ threads[t].pc = "load"
    /\ threads' = [threads EXCEPT ![t].msgs = mailboxes["INBOX"].messages,
                                  ![t].pc = "store"]
    /\ UNCHANGED <<mailboxes, copyMode, faultsLeft, rulesTable, fetch, conn, probe, last>>

\* mbox.messages = ... stores the list it read with the message appended
AppendStore(t) ==
    /\ threads[t].pc = "store"
    /\ mailboxes' = [mailboxes EXCEPT !["INBOX"].messages =
                        Append(threads[t].msgs,
                               NewMessage(threads[t].uid, <<>>, <<>>, 0))]
    /\ threads' = [threads EXCEPT ![t].msgs = <<>>, ![t].pc = "incr"]
    /\ UNCHANGED <<copyMode, faultsLeft, rulesTable, fetch, conn, probe, last>>

\* mbox.uidNext++ reads the counter
IncrLoad(t) ==
    /\ threads[t].pc = "incr"
    /\ threads' = [threads EXCEPT ![t].next = mailboxes["INBOX"].uidNext,
                                  ![t].pc = "incrStore"]
    /\ UNCHANGED <<mailboxes, copyMode, faultsLeft, rulesTable, fetch, conn, probe, last>>

\* mbox.uidNext++ stores the counter it read plus one
IncrStore(t) ==
    /\ threads[t].pc = "incrStore"
    /\ mailboxes' = [mailboxes EXCEPT !["INBOX"].uidNext = threads[t].next + 1]
    /\ threads' = [threads EXCEPT ![t].next = 0, ![t].uid = 0, ![t].pc = "unlock"]
    /\ UNCHANGED <<copyMode, faultsLeft, rulesTable, fetch, conn, probe, last>>

\* the body of the other operations: a store marks message 1, an expunge drops the
\* marked messages, the reads change nothing
ThreadBody(t) ==
    /\ threads[t].pc = "body"
    /\ mailboxes' =
          CASE threads[t].op = "UpdateMessagesFlags" ->
                  [mailboxes EXCEPT !["INBOX"] =
                      UpdateMessagesFlags(@, FALSE, {1}, "AddFlags", <<DeletedFlag>>)]
            [] threads[t].op = "Expunge" ->
                  [mailboxes EXCEPT !["INBOX"] = MailboxExpunge(@)]
            [] OTHER -> mailboxes
    /\ WithinBounds(mailboxes')
    /\ threads' = [threads EXCEPT ![t].pc = "unlock"]
    /\ UNCHANGED <<copyMode, faultsLeft, rulesTable, fetch, conn, probe, last>>

\* defer Unlock / RUnlock
ThreadUnlock(t) ==
    /\ threads[t].pc = "unlock"
    /\ threads' = [threads EXCEPT ![t] = IdleThread]
    /\ UNCHANGED <<mailboxes, copyMode, faultsLeft, rulesTable, fetch, conn, probe, last>>

NextThreads ==
    \E t \in ThreadIds :
        \/ ThreadLock(t)
        \/ AppendReadUid(t) \/ AppendLoad(t) \/ AppendStore(t)
        \/ IncrLoad(t) \/ IncrStore(t)
        \/ ThreadBody(t)
        \/ ThreadUnlock(t)

\* NewMemoryBackend: an empty INBOX; no goroutine is inside the server
InitThreads ==
    /\ mailboxes = [f \in {"INBOX"} |-> NewMailbox]
    /\ copyMode = "mailbox"
    /\ faultsLeft = MaxFaults
    /\ rulesTable = <<>>
    /\ fetch = NoFetch
    /\ conn = NoConn
    /\ threads = [t \in ThreadIds |-> IdleThread]
    /\ probe = NoProbe
    /\ last = NoOp

SpecThreads == InitThreads /\ [][NextThreads]_vars

\* C22: every operation that mutates the message list or the UID counter of a mailbox
\* (AddMessage, CreateMessage, UpdateMessagesFlags, Expunge) excludes every other
\* mutation and every read (ListMessages, SearchMessages, Status, GetMessageCount) of the
\* same mailbox: no two operations, one of them a mutation, are inside their critical
\* sections at the same time.
C22_MutationsExclude ==
    \A t, u \in InSection(threads) :
        ~(t # u /\ threads[t].op \in MutatingOps)

-----------------------------------------------------------------------------
(* The batch engine: matchConditions over conditions and messages *)

RECURSIVE FormatUint(_)
\* the decimal digits of n, as a configuration file writes a threshold
FormatUint(n) ==
    LET d == CHOOSE ch \in DOMAIN DigitVal : DigitVal[ch] = n % 10
    IN  IF n < 10 THEN <<d>> ELSE Append(FormatUint(n \div 10), d)

\* the units of a size threshold and what each multiplies by
SizeUnits == {<<>>, <<"B">>, <<"K", "B">>, <<"M", "B">>, <<"G", "B">>}

Multiplier(unit) ==
    CASE unit = <<"K", "B">> -> 1024
      [] unit = <<"M", "B">> -> 1024 * 1024
      [] unit = <<"G", "B">> -> 1024 * 1024 * 1024
      [] OTHER -> 1

\* the numbers of the thresholds: 4GB is 2^32 bytes
MaxSizeNumber == 4

SizeNumbers == {0, 1, MaxSizeNumber}

\* a size threshold of the configuration: none, "<n><unit>", or a word
SizeChoices ==
    {[kind |-> "absent", n |-> 0, unit |-> <<>>],
     [kind |-> "invalid", n |-> 0, unit |-> <<>>]}
    \cup [kind : {"number"}, n : SizeNumbers, unit : SizeUnits]

SizeString(sz) ==
    CASE sz.kind = "absent" -> <<>>
      [] sz.kind = "invalid" -> <<"i", "n", "v", "a", "l", "i", "d">>
      [] OTHER -> FormatUint(sz.n) \o sz.unit

\* the sizes of the messages, in bytes
EmailSizes == {0, 1, 1025, 1024 * 1024 * 1024}

AsU32(n) == U32(n \div Half, n % Half)

MatchEmails ==
    [From : {S_news, S_friend}, To : {<<>>, <<S_friend>>},
     Subject : {<<>>, <<"h", "i">>}, Date : {Today - 3, Today},
     Flags : {<<>>, <<SeenFlag>>}, HasAttachment : BOOLEAN, Size : EmailSizes]

\* the values a condition takes when the configuration gives it
ConditionValues ==
    [From |-> {S_NEWS}, FromContains |-> {<<"n">>}, To |-> {S_friend},
     ToContains |-> {<<"F">>}, Subject |-> {<<"H", "I">>}, SubjectContains |-> {<<"h">>},
     OlderThanDays |-> {2}, NewerThanDays |-> {2},
     IsRead |-> {{TRUE}, {FALSE}}, IsUnread |-> {{TRUE}, {FALSE}},
     HasAttachment |-> {{TRUE}, {FALSE}}]

\* the conditions with at most two predicates besides the size
MatchConditionSets ==
    {NoConditions}
    \cup UNION {{[NoConditions EXCEPT ![f] = v] : v \in ConditionValues[f]} :
                f \in DOMAIN ConditionValues}
    \cup UNION {UNION {{[NoConditions EXCEPT ![f] = v, ![g] = w] :
                          v \in ConditionValues[f], w \in ConditionValues[g]} :
                       g \in DOMAIN ConditionValues \ {f}} :
                f \in DOMAIN ConditionValues}

\* the predicates the conditions carry
Present(c) ==
    {f \in DOMAIN c :
        CASE f \in {"OlderThanDays", "NewerThanDays"} -> c[f] > 0
          [] f \in {"IsRead", "IsUnread", "HasAttachment"} -> c[f] # Nil
          [] OTHER -> c[f] # <<>>}

\* Engine.matchConditions on one message, as TestMatchConditions calls it
DoMatchConditions ==
    /\ last = NoOp
    /\ \E e \in MatchEmails, c \in MatchConditionSets, sz \in SizeChoices :
        /\ Cardinality(Present(c)) = 2 => (sz.kind = "absent" /\ e.Size = 0)
        /\ \E cs \in {[c EXCEPT !.SizeLargerThan = SizeString(sz)]} :
            last' = [op |-> "matchConditions", email |-> e, c |-> cs, size |-> sz,
                     result |-> matchConditions([e EXCEPT !.Size = AsU32(e.Size)],
                                                cs, Today)]
    /\ UNCHANGED <<mailboxes, copyMode, faultsLeft, rulesTable, fetch, conn, threads, probe>>

NextMatch == DoMatchConditions \/ Return

SpecMatch == TypeInit /\ [][NextMatch]_vars

IsMatch == last.op = "matchConditions"

\* size > n * multiplier, without forming the product
LargerThan(size, n, multiplier) == size >= 1 /\ (size - 1) \div multiplier >= n

\* what each predicate asks of the message
Satisfied(f, e, c, sz) ==
    CASE f = "From" -> ToLower(e.From) = ToLower(c.From)
      [] f = "FromContains" -> Contains(ToLower(e.From), ToLower(c.FromContains))
      [] f = "To" -> \E i \in 1..Len(e.To) : ToLower(e.To[i]) = ToLower(c.To)
      [] f = "ToContains" ->
            \E i \in 1..Len(e.To) : Contains(ToLower(e.To[i]), ToLower(c.ToContains))
      [] f = "Subject" -> ToLower(e.Subject) = ToLower(c.Subject)
      [] f = "SubjectContains" -> Contains(ToLower(e.Subject), ToLower(c.SubjectContains))
      [] f = "OlderThanDays" -> e.Date <= Today - c.OlderThanDays
      [] f = "NewerThanDays" -> e.Date >= Today - c.NewerThanDays
      [] f = "IsRead" -> c.IsRead = {SeenFlag \in SeqToSet(e.Flags)}
      [] f = "IsUnread" -> c.IsUnread = {SeenFlag \notin SeqToSet(e.Flags)}
      [] f = "HasAttachment" -> c.HasAttachment = {e.HasAttachment}
      [] f = "SizeLargerThan" ->
            sz.kind = "number" /\ LargerThan(e.Size, sz.n, Multiplier(sz.unit))

\* C23: matchConditions returns true if and only if every predicate present in the
\* conditions is satisfied by the message; an absent predicate (empty string, zero days,
\* nil pointer) never causes a mismatch, so empty conditions match every message.
C23_AllPresentPredicates ==
    IsMatch =>
        (last.result <=>
            \A f \in Present(last.c) : Satisfied(f, last.email, last.c, last.size))

\* the same with the size threshold left out of the conditions
PresentPredicatesWithoutSize ==
    (IsMatch /\ last.size.kind = "absent") =>
        (last.result <=>
            \A f \in Present(last.c) : Satisfied(f, last.email, last.c, last.size))

\* C24: a size threshold whose string cannot be parsed makes the size predicate not
\* satisfied: matchConditions returns false for every message when the conditions carry
\* an unparsable size_larger_than value, and no error is raised.
C24_UnparsableSizeNeverMatches ==
    (IsMatch /\ last.size.kind = "invalid") => ~last.result

\* C25: for a threshold "<n><unit>" with unit none, B, KB, MB or GB (multipliers 1, 1,
\* 1024, 1024^2, 1024^3) the size predicate is satisfied exactly when the size of the
\* message in bytes is strictly greater than n times the multiplier, for every n that
\* parseSize accepts.
C25_SizeThresholdExact ==
    (IsMatch /\ last.size.kind = "number" /\ Present(last.c) = {"SizeLargerThan"}) =>
        (/\ parseSize(last.c.SizeLargerThan).ok
         /\ last.result <=>
               LargerThan(last.email.Size, last.size.n, Multiplier(last.size.unit)))

\* the same for the thresholds below 2^32 bytes (4GB)
SizeExactBelowWrap ==
    (/\ IsMatch /\ last.size.kind = "number" /\ Present(last.c) = {"SizeLargerThan"}
     /\ ~(last.size.n >= 4 /\ last.size.unit = <<"G", "B">>)) =>
        (last.result <=>
            LargerThan(last.email.Size, last.size.n, Multiplier(last.size.unit)))

-----------------------------------------------------------------------------
(* Engine runs: actions whose parameter is missing *)

\* a rule on INBOX whose action is the given one
ActionRule(conditions, action) ==
    [Account |-> "main", Folder |-> "INBOX", Conditions |-> conditions, Action |-> action]

\* move, add_flag and remove_flag, each with and without its parameter
ParameterActions ==
    {[NoAction EXCEPT !.Type = "move", !.MoveTo = dest] : dest \in {"", "Archive"}}
    \cup {[NoAction EXCEPT !.Type = "add_flag", !.AddFlag = f] : f \in {"", FlaggedFlag}}
    \cup {[NoAction EXCEPT !.Type = "remove_flag", !.RemoveFlag = f] : f \in {"", SeenFlag}}

ParameterRules == {ActionRule(NoConditions, a) : a \in ParameterActions}

NextParameters ==
    DoExecuteAll(SeqsUpTo(ParameterRules, MaxConfigRules), EngineFaults) \/ Return

SpecParameters == InitRules /\ [][NextParameters]_vars

\* the action needs a parameter and has none
MissingParameter(action) ==
    \/ action.Type = "move" /\ action.MoveTo = ""
    \/ action.Type = "add_flag" /\ action.AddFlag = ""
    \/ action.Type = "remove_flag" /\ action.RemoveFlag = ""

\* rule run i reached executeAction outside dry-run mode: it reports matches
Executed(i) == ~last.dryRun /\ last.runs[i].matched # <<>>

\* C26: executeAction with action type move and an empty move_to, add_flag with an empty
\* add_flag, or remove_flag with an empty remove_flag issues no mailbox command, leaves
\* the mailbox unchanged and returns no error.
C26_MissingParameterNoOp ==
    IsExecuteAll =>
        \A i \in 1..Len(last.runs) :
            (Executed(i) /\ MissingParameter(last.rules[i].Action)) =>
                /\ \A k \in 1..Len(last.runs[i].log) :
                      last.runs[i].log[k].cmd \notin MutationCmds
                /\ last.runs[i].after = last.runs[i].before
                /\ ~last.runs[i].err

\* a run outside dry-run mode whose rule matched messages and has no parameter, after a
\* rule with its parameter issued its command
C26_Witness ==
    /\ IsExecuteAll
    /\ Len(last.runs) = 2
    /\ Executed(1) /\ ~MissingParameter(last.rules[1].Action)
    /\ \E k \in 1..Len(last.runs[1].log) : last.runs[1].log[k].cmd \in MutationCmds
    /\ Executed(2) /\ MissingParameter(last.rules[2].Action)

-----------------------------------------------------------------------------
(* The limit of a fetch *)

\* the limit of the last live-preview request: zero means 100
LimitOf(req) == IF req.Limit = 0 THEN DefaultLimit ELSE req.Limit

\* min(L, N), and none for a limit below zero
AtMost(limit, n) == IF limit < 0 THEN 0 ELSE IF limit < n THEN limit ELSE n

\* the last request returned the k most recent messages of its folder, most recent first
ReturnedMostRecent(k) ==
    LET box == last.before[last.src].messages
    IN  /\ last.result.TotalMessages = k
        /\ Len(last.result.Messages) = k
        /\ \A j \in 1..k : last.result.Messages[j].UID = box[Len(box) - j + 1].uid

\* C27: a fetch with limit L over a folder of N messages returns at most L messages:
\* exactly min(L, N) of them, the highest-sequence (most recent) ones, most recent first;
\* for a live-preview request this holds for whatever integer limit the client sends, an
\* omitted (zero) limit meaning 100.
C27_FetchLimit ==
    PreviewSucceeded =>
        ReturnedMostRecent(AtMost(LimitOf(last.req),
                                  Len(last.before[last.src].messages)))

\* the same for the limits above zero and the omitted limit
FetchLimitAboveZero ==
    (PreviewSucceeded /\ last.req.Limit >= 0) =>
        ReturnedMostRecent(AtMost(LimitOf(last.req),
                                  Len(last.before[last.src].messages)))

-----------------------------------------------------------------------------
(* TestAccountConnection: the goroutine, its channel and the timer *)

\* what the network and the server do to one connection test; "hangs" is a server that
\* never answers the dial
ProbeEnvs == {"ok", "dialFails", "loginFails", "listFails", "selectFails", "hangs"}

NilStatus == [IsNil |-> TRUE]

FailureStatus(message) == [Success |-> FALSE, Message |-> message, TotalEmails |-> 0]

\* Client.TestConnection: [status, err]; a failed LIST or SELECT returns nil and an error
TestConnection(boxes, env) ==
    IF env \in {"listFails", "selectFails"}
    THEN [status |-> NilStatus, err |-> TRUE, message |-> env]
    ELSE [status |-> [Success |-> TRUE, Message |-> "Connection successful",
                      TotalEmails |-> StatusMessages(boxes["INBOX"])],
          err |-> FALSE, message |-> ""]

\* a select that hands the error of the result to the caller
SelectedResult_PassesError(result) == [status |-> result.status, err |-> result.err]

\* case result := <-done: an error becomes a failure status
SelectedResult(result) ==
    IF result.err THEN [status |-> FailureStatus(result.message), err |-> FALSE]
    ELSE [status |-> result.status, err |-> FALSE]

\* timeout := time.After(30 * time.Second); done := make(chan ..., 1); go func() {...}()
ProbeStart ==
    /\ probe = NoProbe
    /\ \E env \in ProbeEnvs :
          probe' = [pc |-> "select", gpc |-> "connect", env |-> env, timer |-> FALSE,
                    done |-> <<>>, ret |-> <<>>]
    /\ UNCHANGED <<mailboxes, copyMode, faultsLeft, rulesTable, fetch, conn, threads, last>>

\* the goroutine: Connect returns; its error is sent as a failure status
GoConnect ==
    /\ probe # NoProbe /\ probe.gpc = "connect"
    /\ probe.env # "hangs"
    /\ probe' = IF probe.env \in {"dialFails", "loginFails"}
                THEN [probe EXCEPT !.gpc = "end",
                                   !.done = <<[status |-> FailureStatus(probe.env),
                                               err |-> FALSE, message |-> ""]>>]
                ELSE [probe EXCEPT !.gpc = "test"]
    /\ UNCHANGED <<mailboxes, copyMode, faultsLeft, rulesTable, fetch, conn, threads, last>>

\* the goroutine: client.TestConnection(), done <- {status, err}, client.Close(); the
\* channel has room for the one value ever sent
GoTestConnection ==
    /\ probe # NoProbe /\ probe.gpc = "test"
    /\ probe' = [probe EXCEPT !.gpc = "end",
                              !.done = <<TestConnection(mailboxes, probe.env)>>]
    /\ UNCHANGED <<mailboxes, copyMode, faultsLeft, rulesTable, fetch, conn, threads, last>>

\* 30 seconds have passed
TimerFires ==
    /\ probe # NoProbe /\ probe.pc = "select" /\ ~probe.timer
    /\ probe' = [probe EXCEPT !.timer = TRUE]
    /\ UNCHANGED <<mailboxes, copyMode, faultsLeft, rulesTable, fetch, conn, threads, last>>

\* select: case result := <-done
SelectDone ==
    /\ probe # NoProbe /\ probe.pc = "select"
    /\ probe.done # <<>>
    /\ probe' = [probe EXCEPT !.pc = "returned", !.done = <<>>,
                              !.ret = Append(@, SelectedResult(Head(probe.done))
                                                @@ [timedOut |-> FALSE])]
    /\ UNCHANGED <<mailboxes, copyMode, faultsLeft, rulesTable, fetch, conn, threads, last>>

\* select: case <-timeout
SelectTimeout ==
    /\ probe # NoProbe /\ probe.pc = "select"
    /\ probe.timer
    /\ probe' = [probe EXCEPT !.pc = "returned",
                              !.ret = Append(@, [status |-> FailureStatus("timeout"),
                                                 err |-> FALSE, timedOut |-> TRUE])]
    /\ UNCHANGED <<mailboxes, copyMode, faultsLeft, rulesTable, fetch, conn, threads, last>>

\* the caller has its status; the goroutine, if it still runs, is left behind
ProbeOver ==
    /\ probe # NoProbe /\ probe.pc = "returned"
    /\ probe' = NoProbe
    /\ UNCHANGED <<mailboxes, copyMode, faultsLeft, rulesTable, fetch, conn, threads, last>>

NextProbe ==
    \/ AddMessage("INBOX", S_news, <<>>, 0)
    \/ ProbeStart
    \/ GoConnect
    \/ GoTestConnection
    \/ TimerFires
    \/ SelectDone
    \/ SelectTimeout
    \/ ProbeOver

SpecProbe == TypeInit /\ [][NextProbe]_vars

\* the timer fires after 30 seconds and the select takes a case that is ready
SpecProbeLive ==
    SpecProbe /\ WF_vars(TimerFires) /\ WF_vars(SelectTimeout) /\ WF_vars(SelectDone)

Calling == probe # NoProbe /\ probe.pc = "select"

Returned == probe # NoProbe /\ probe.pc = "returned"

\* one status, no error; a success only from a connection that was made and tested
OneStatusNoError ==
    /\ Calling => probe.ret = <<>>
    /\ Returned =>
          /\ Len(probe.ret) = 1
          /\ ~probe.ret[1].err
          /\ probe.ret[1].status # NilStatus
          /\ probe.ret[1].status.Success => (probe.env = "ok" /\ ~probe.ret[1].timedOut)

\* C28: TestAccountConnection always returns exactly one ConnectionStatus and a nil
\* error: a connection failure, a login failure, a failed folder listing and the
\* 30-second timeout are each reported as Success=false, never as an error, and the call
\* returns once the timeout fires even if the connection attempt is still pending.
C28_OneStatusInTime ==
    /\ []OneStatusNoError
    /\ Calling ~> Returned
    /\ (Calling /\ probe.timer) ~> Returned

\* a call returned the timeout status while its goroutine was still connecting
C28_Witness ==
    /\ Returned
    /\ probe.env = "hangs" /\ probe.gpc = "connect"
    /\ probe.ret[1].timedOut

\* a call returned the failure status made from the error of a failed folder listing
C28_ListWitness ==
    /\ Returned
    /\ probe.env = "listFails"
    /\ ~probe.ret[1].timedOut /\ ~probe.ret[1].status.Success

\* the last request named an account the store does not have
UnknownAccount == IsLivePreview /\ last.req # InvalidPayload /\ last.env = "noAccount"

\* C29: a preview request for an account id that does not exist yields exactly two events
\* in this order: a progress event with stage connecting, then an error event with
\* message "account not found"; no mailbox session is opened.
C29_AccountNotFound ==
    UnknownAccount =>
        /\ Len(last.events) = 2
        /\ last.events[1].Type = "progress" /\ last.events[1].Stage = "connecting"
        /\ last.events[2] = [Type |-> "error", Error |-> "account not found"]
        /\ ~last.opened /\ ~last.open
        /\ last.log = <<>>
        /\ last.after = last.before

\* a request for an unknown account on a mailbox that holds messages, with a rule stored
C29_Witness ==
    /\ UnknownAccount
    /\ last.before["INBOX"].messages # <<>>
    /\ rulesTable # <<>>

-----------------------------------------------------------------------------
(* Runs with nothing to do: an empty folder, no enabled rule *)

NextNothing ==
    \/ AddMessage("INBOX", S_news, <<>>, 0)
    \/ \E in \in RuleInputs : CreateRule(in)
    \/ DoPreviewRules({0})
    \/ DoApplyRules({0})
    \/ DoLivePreview({0})
    \/ DoRun({0})
    \/ DoExecuteAll(EngineConfigs, {NoFault})
    \/ Return

SpecNothing == TypeInit /\ [][NextNothing]_vars

HandlerOps == {"PreviewRules", "ApplyRules", "LivePreview"}

\* the folder is there and holds no message
EmptyFolder(boxes, folder) == folder \in DOMAIN boxes /\ boxes[folder].messages = <<>>

\* the last run met no failure of the store or of the network, and had an empty folder
\* or no enabled rule to work on
NothingToDo ==
    CASE last.op \in HandlerOps ->
            /\ last.env = "ok" /\ last.faultAt = 0
            /\ last.op = "LivePreview" => last.req # InvalidPayload
            /\ last.src \in DOMAIN last.before
            /\ \/ EmptyFolder(last.before, last.src)
               \/ \A i \in 1..Len(last.rules) : ~last.rules[i].Enabled
      [] last.op = "run" ->
            /\ last.env = "ok" /\ last.faultAt = 0
            /\ EmptyFolder(last.before, "INBOX") \/ last.rules = <<>>
      [] last.op = "ExecuteAll" ->
            /\ last.fault = NoFault
            /\ \A i \in 1..Len(last.rules) :
                  /\ last.rules[i].Account \in ConfigAccounts
                  /\ EmptyFolder(last.before, last.rules[i].Folder)
      [] OTHER -> FALSE

\* the matches the last run reports
MatchedMessages ==
    CASE last.op \in HandlerOps -> last.result.MatchedMessages
      [] last.op = "run" -> Len(last.matches)
      [] OTHER -> Cardinality({i \in 1..Len(last.runs) : last.runs[i].matched # <<>>})

\* C30: a run over an empty folder, or with no enabled rule, completes without error,
\* issues no mutation command and reports matched_messages = 0.
C30_NothingToDo ==
    NothingToDo =>
        /\ ~last.err
        /\ \A k \in 1..Len(last.log) : last.log[k].cmd \notin MutationCmds
        /\ last.after = last.before
        /\ MatchedMessages = 0
        /\ last.op = "LivePreview" => last.events[Len(last.events)].Type = "result"
        /\ last.op \in {"PreviewRules", "ApplyRules"} => last.status = 200

\* an apply for real over a folder with a message that the one rule stored, a disabled
\* one, would match
C30_Witness ==
    /\ NothingToDo
    /\ last.op = "ApplyRules" /\ ~last.dryRun
    /\ last.before[last.src].messages # <<>>
    /\ Len(last.rules) = 1 /\ last.rules[1].Pattern = <<"@">>

\* a run of the CLI over an empty INBOX with a rule configured
C30_EmptyWitness ==
    /\ NothingToDo
    /\ last.op = "run" /\ ~last.dryRun
    /\ EmptyFolder(last.before, "INBOX") /\ last.rules # <<>>

-----------------------------------------------------------------------------
(* The steps of one rule run *)

\* the place of a command among the steps of ExecuteRule: select, fetch, then the
\* commands of the action
StepRank(cmd) ==
    CASE cmd = "select" -> 1
      [] cmd = "fetch" -> 2
      [] cmd = "copy" -> 3
      [] cmd = "store" -> 4
      [] cmd = "expunge" -> 5
      [] OTHER -> 0

\* rule run i of the last ExecuteAll could not connect
ConnectFailed(i) == last.fault.rule = i /\ last.fault.at = 0

\* the commands of the run are in step order, and a command that failed is the last one
\* and is returned as the error of the run
StepsInOrder(i) ==
    LET rr == last.runs[i]
        log == rr.log
    IN  /\ ~rr.opened => log = <<>>
        /\ rr.opened => (log # <<>> /\ log[1].cmd = "select")
        /\ Len(log) >= 2 => log[2].cmd = "fetch"
        /\ \A j, k \in 1..Len(log) : j < k => StepRank(log[j].cmd) < StepRank(log[k].cmd)
        /\ \A k \in 1..Len(log) : StepRank(log[k].cmd) > 0
        /\ \A k \in 1..Len(log) : ~log[k].ok => (k = Len(log) /\ rr.err)
        /\ rr.err <=> (ConnectFailed(i) \/ (log # <<>> /\ ~log[Len(log)].ok))
        /\ ConnectFailed(i) => (log = <<>> /\ rr.after = rr.before)
        /\ rr.matched # <<>> => (Len(log) >= 2 /\ log[2].ok)
        /\ last.rules[i].Action.Type = "delete" =>
              /\ Len(log) <= 4
              /\ Len(log) >= 3 => log[3].cmd = "store"
              /\ Len(log) = 4 => (log[3].ok /\ log[4].cmd = "expunge")

\* C31: within one ExecuteRule rr the steps occur in the order connect, select
\* folder, fetch, match, act (for delete: set the deleted flag, then expunge); a
\* failure of a step is returned and no later step of that rr is executed.
C31_StepsInOrder ==
    last.op = "ExecuteAll" => \A i \in 1..Len(last.runs) : StepsInOrder(i)

\* a delete rule whose store failed, so that it never expunged, followed by a
\* delete rule that ran all its steps
C31_Witness ==
    /\ last.op = "ExecuteAll" /\ ~last.dryRun
    /\ Len(last.runs) = 2
    /\ last.rules[1].Action.Type = "delete" /\ last.rules[2].Action.Type = "delete"
    /\ Len(last.runs[1].log) = 3 /\ ~last.runs[1].log[3].ok /\ last.runs[1].err
    /\ Len(last.runs[2].log) = 4 /\ ~last.runs[2].err
    /\ last.runs[2].log[4].cmd = "expunge" /\ last.runs[2].log[4].ok

-----------------------------------------------------------------------------
(* An apply that meets a failed move *)

MoveCmds == {"copy", "store", "expunge"}

\* an apply for real that got as far as the client
RealApplyRan == last.op = "ApplyRules" /\ ~last.dryRun /\ last.env = "ok"

\* the UIDs, in result order, that a preview of the source as the apply found it
\* matches
MatchedInOrder ==
    LET p == PreviewRules(NewSession(last.before, 0), last.rules, last.src, 0)
    IN  IF p.err THEN <<>>
        ELSE LET hit == FilterSeq(p.result.Messages, Matched(p.result))
             IN  [i \in 1..Len(hit) |-> hit[i].UID]

\* the copy commands of the last operation, in the order they were issued
CopiesIssued == FilterSeq(last.log, {k \in 1..Len(last.log) : last.log[k].cmd = "copy"})

\* the moves of the last operation that ran through to a successful expunge
MovesCompleted ==
    Cardinality({k \in 1..Len(last.log) : last.log[k].cmd = "expunge" /\ last.log[k].ok})

\* a command of a move failed
MoveFailed == \E k \in 1..Len(last.log) : last.log[k].cmd \in MoveCmds /\ ~last.log[k].ok

\* the message with this UID is in the source after the run just as it was before
Untouched(uid) ==
    \E i \in 1..Len(last.before[last.src].messages) :
        /\ last.before[last.src].messages[i].uid = uid
        /\ \E k \in 1..Len(last.after[last.src].messages) :
               last.after[last.src].messages[k] = last.before[last.src].messages[i]

MovedBeforeFailure == RealApplyRan /\ MovesCompleted > 0

-----------------------------------------------------------------------------
(* The counts of a PreviewResult *)

\* C33: in every PreviewResult, of the batch preview, of an apply and of the live
\* preview, total_messages is the length of messages, matched_messages is the number
\* of messages that carry a matched rule and the sum of the counts in rule_matches,
\* and matched_messages is at most total_messages.
C33_ResultCounts ==
    HasResult =>
        /\ last.result.TotalMessages = Len(last.result.Messages)
        /\ last.result.MatchedMessages = Cardinality(Matched(last.result))
        /\ last.result.MatchedMessages
              = SumOver(last.result.RuleMatches, DOMAIN last.result.RuleMatches)
        /\ last.result.MatchedMessages <= last.result.TotalMessages
        /\ \A id \in DOMAIN last.result.RuleMatches : last.result.RuleMatches[id] > 0

\* a streamed result of two messages, one of them matched although two enabled rules
\* match it
C33_Witness ==
    /\ HasResult /\ last.op = "LivePreview"
    /\ last.result.TotalMessages = 2 /\ last.result.MatchedMessages = 1
    /\ \E i \in Matched(last.result) :
          Cardinality({j \in 1..Len(last.rules) :
                          Applies(last.rules[j], last.result.Messages[i].From)}) = 2

\* a batch result of two messages, both matched
C33_BatchWitness ==
    /\ HasResult /\ last.op = "PreviewRules"
    /\ last.result.TotalMessages = 2 /\ last.result.MatchedMessages = 2

-----------------------------------------------------------------------------
(* The live preview against the batch preview *)

\* the last request was a live preview that got as far as the mailbox
LiveRan == IsLivePreview /\ last.env = "ok" /\ last.req # InvalidPayload

\* Client.PreviewRules on the mailbox, the rule list, the folder and the limit of the
\* last live preview, under the same network fault
BatchOfLast ==
    PreviewRules(NewSession(last.before, last.faultAt), last.rules, last.src,
                 LimitOf(last.req))

\* the message data of the processing events, in the order sent
MessageDataOf(events) ==
    LET sent == WithMessage(events)
    IN  [i \in 1..Len(sent) |-> sent[i].MessageData]

\* C34: for the same account, folder, limit, rule list and mailbox contents the
\* terminal result of the live preview equals the result of the batch PreviewRules,
\* and the message data of the processing events, in the order sent, is the list
\* result.messages.
C34_LiveEqualsBatch ==
    LiveRan =>
        /\ BatchOfLast.err <=> last.result = NoResult
        /\ BatchOfLast.c.log = last.log
        /\ ~BatchOfLast.err =>
              /\ last.events[Len(last.events)] = ResultEvent(BatchOfLast.result)
              /\ last.result = BatchOfLast.result
              /\ MessageDataOf(last.events) = BatchOfLast.result.Messages

\* a live preview of two messages under an enabled rule that matches one of them and
\* a disabled rule that matches both
C34_Witness ==
    /\ LiveRan /\ last.result # NoResult
    /\ last.result.TotalMessages = 2 /\ last.result.MatchedMessages = 1
    /\ Len(last.rules) = 2 /\ last.rules[1].Enabled /\ ~last.rules[2].Enabled
    /\ Len(MessageDataOf(last.events)) = 2

-----------------------------------------------------------------------------
(* Sessions are closed *)

\* live previews, applies and engine runs over one mailbox, with network faults
NextSessions ==
    \/ CreateRule(RuleInput(N_a, <<"@">>, TRUE, 1))
    \/ DoApplyRules(0..6)
    \/ DoLivePreview(0..3)
    \/ DoExecuteAll(SeqsUpTo(EngineRules, 1), EngineFaults)
    \/ Return

SpecSessions == InitRules /\ [][NextSessions]_vars

SessionOps == {"LivePreview", "ApplyRules", "ExecuteAll"}

\* the last operation logged in to the mailbox server
OpenedSession ==
    CASE last.op = "LivePreview" -> last.opened
      [] last.op = "ApplyRules" -> last.status \in {200, 500} /\ last.env = "ok"
      [] last.op = "ExecuteAll" -> \E i \in 1..Len(last.runs) : last.runs[i].opened
      [] OTHER -> FALSE

\* C35: every mailbox session opened by a live-preview request, by ExecuteRule or by
\* the REST apply handler is logged out before the operation returns, on the success
\* path and on every failure path, so that no session is open once the operation is
\* over.
C35_SessionsClosed ==
    last.op \in SessionOps =>
        /\ ~last.open
        /\ last.op = "ExecuteAll" => \A i \in 1..Len(last.runs) : ~last.runs[i].open

\* an engine run that logged in and failed to select its folder
C35_Witness ==
    /\ last.op = "ExecuteAll" /\ OpenedSession
    /\ Len(last.runs[1].log) = 1 /\ ~last.runs[1].log[1].ok /\ last.runs[1].err

\* an apply whose move failed, and a live preview whose fetch failed
C35_ApplyWitness ==
    /\ last.op = "ApplyRules" /\ OpenedSession /\ MoveFailed

C35_PreviewWitness ==
    /\ last.op = "LivePreview" /\ OpenedSession
    /\ Len(last.log) = 2 /\ ~last.log[2].ok

-----------------------------------------------------------------------------
(* What a delete takes out of the folder *)

FromFriend == [NoConditions EXCEPT !.FromContains = <<"f">>]

\* rules that delete the one message or the other of the INBOX
DeleteRules ==
    {EngineRule("main", "INBOX", FromNews, "delete", ""),
     EngineRule("main", "INBOX", FromFriend, "delete", "")}

NextDelete == DoExecuteAll(SeqsUpTo(DeleteRules, MaxConfigRules), EngineFaults) \/ Return

SpecDelete == InitRules /\ [][NextDelete]_vars

\* the UIDs of a folder whose message carries the deleted mark
MarkedIn(mbox) ==
    {mbox.messages[i].uid : i \in {k \in 1..Len(mbox.messages) : mbox.messages[k].deleted}}

\* rule run i acted on the UIDs it matched and removed these and no others from its
\* folder
RemovedExactlyMatched(i) ==
    LET rr  == last.runs[i]
        src == last.rules[i].Folder
        U   == SeqToSet(rr.matched)
    IN  /\ UidsOf(rr.before[src]) \ U \subseteq UidsOf(rr.after[src])
        /\ (~rr.err /\ ~last.dryRun) => U \cap UidsOf(rr.after[src]) = {}

\* C36: a move or delete of a set U of UIDs removes from the source folder exactly
\* the messages in U: a message not in U, also one that carried the deleted flag
\* before the action started, is still in the source folder afterwards.
C36_RemovesExactlyU ==
    last.op = "ExecuteAll" => \A i \in 1..Len(last.runs) : RemovedExactlyMatched(i)

\* the same for the runs that find no marked message in their folder
RemovesExactlyUFromUnmarked ==
    last.op = "ExecuteAll" =>
        \A i \in 1..Len(last.runs) :
            MarkedIn(last.runs[i].before[last.rules[i].Folder]) = {}
                => RemovedExactlyMatched(i)

-----------------------------------------------------------------------------
(* A move tried again *)

\* the copies a folder holds of the message with this sender (the senders of the
\* messages of an engine run differ, and nothing is delivered during the runs)
CopiesIn(boxes, folder, from) ==
    Cardinality({k \in 1..Len(boxes[folder].messages) :
                    boxes[folder].messages[k].from = from})

\* the sender of the message with this UID
SenderOf(mbox, uid) ==
    LET k == CHOOSE j \in 1..Len(mbox.messages) : mbox.messages[j].uid = uid
    IN  mbox.messages[k].from

\* rule run i of the last ExecuteAll moved its matches and met no failure
MoveSucceeded(i) ==
    /\ ~last.dryRun
    /\ last.rules[i].Action.Type = "move" /\ last.rules[i].Action.MoveTo = "Archive"
    /\ last.runs[i].matched # <<>>
    /\ ~last.runs[i].err

\* after run i every message it moved is out of the source and once in the destination
MovedOnce(i) ==
    \A k \in 1..Len(last.runs[i].matched) :
        LET uid  == last.runs[i].matched[k]
            from == SenderOf(last.runs[i].before[last.rules[i].Folder], uid)
        IN  /\ uid \notin UidsOf(last.runs[i].after[last.rules[i].Folder])
            /\ CopiesIn(last.runs[i].after, last.rules[i].Folder, from) = 0
            /\ CopiesIn(last.runs[i].after, "Archive", from) = 1

\* C37: retrying a move converges: after move attempts on the same message of which
\* the earlier ones failed after the copy step and the last one succeeds, the message
\* is absent from the source folder and present exactly once in the destination.
C37_RetryConverges ==
    last.op = "ExecuteAll" =>
        \A i \in 1..Len(last.runs) : MoveSucceeded(i) => MovedOnce(i)

\* the same for the moves that find no copy of earlier attempts in the destination
MovedOnceAtFirstAttempt ==
    last.op = "ExecuteAll" =>
        \A i \in 1..Len(last.runs) :
            (/\ MoveSucceeded(i)
             /\ \A k \in 1..Len(last.runs[i].matched) :
                   CopiesIn(last.runs[i].before, "Archive",
                            SenderOf(last.runs[i].before[last.rules[i].Folder],
                                     last.runs[i].matched[k])) = 0)
                => MovedOnce(i)

\* a move that succeeded at the first attempt
FirstAttemptSucceeded ==
    /\ last.op = "ExecuteAll"
    /\ \E i \in 1..Len(last.runs) :
          MoveSucceeded(i) /\ last.runs[i].before["Archive"].messages = <<>>

-----------------------------------------------------------------------------
(* Concurrent appends *)

\* a goroutine enters AddMessage or CreateMessage
AppendLock(t) == ThreadLock(t) /\ threads'[t].op \in AppendOps

\* goroutines that call TestServer.AddMessage and MemoryMailbox.CreateMessage on INBOX
NextAppends ==
    \E t \in ThreadIds :
        \/ AppendLock(t)
        \/ AppendReadUid(t) \/ AppendLoad(t) \/ AppendStore(t)
        \/ IncrLoad(t) \/ IncrStore(t)
        \/ ThreadUnlock(t)

SpecAppends == InitThreads /\ [][NextAppends]_vars

\* the goroutines that have stored their message and have not returned yet
Stored(th) == {t \in DOMAIN th : th[t].pc \in {"incr", "incrStore", "unlock"}}

\* C38: under any interleaving of concurrent MemoryBackend.AddMessage and
\* MemoryMailbox.CreateMessage calls on the same mailbox, the messages of the mailbox
\* have pairwise distinct UIDs and no appended message is lost.
C38_AppendsDistinctAndKept ==
    LET box == mailboxes["INBOX"].messages
    IN  /\ \A i, j \in 1..Len(box) : box[i].uid = box[j].uid => i = j
        /\ Len(box) >= Cardinality(Stored(threads))

\* two calls of the same operation take the same mutex and are never inside together
SameOperationExcludes ==
    \A t, u \in InSection(threads) : t # u => threads[t].op # threads[u].op

-----------------------------------------------------------------------------
(* A fetch comes to its end *)

\* the goroutine of the fetch and the loop of the caller are scheduled, and the
\* server's Fetch goes on until it has written its messages and closed the channel
SpecFetchLive ==
    /\ SpecFetch
    /\ WF_vars(ProducerSend) /\ WF_vars(ProducerClose) /\ WF_vars(ProducerDone)
    /\ WF_vars(ConsumerRecv) /\ WF_vars(ConsumerRangeEnd) /\ WF_vars(ConsumerRecvDone)

RECURSIVE ConsumedSeq(_, _, _)
\* what the range loop has appended after these messages, in this order
ConsumedSeq(kind, rules, msgs) ==
    IF msgs = <<>> THEN <<>>
    ELSE Consumed(kind, rules, Head(msgs)) \o ConsumedSeq(kind, rules, Tail(msgs))

InFetch == fetch # NoFetch

\* the messages sent so far are, in the order sent, those the loop has taken followed
\* by those in the queue, each of them once; the loop ends only when it has them all
DeliveredInOrder ==
    InFetch =>
        LET taken == fetch.sent - Len(fetch.queue)
        IN  /\ Len(fetch.queue) <= QueueCap
            /\ taken >= 0
            /\ fetch.queue = SubSeq(fetch.toSend, taken + 1, fetch.sent)
            /\ fetch.result
                  = ConsumedSeq(fetch.kind, fetch.rules, SubSeq(fetch.toSend, 1, taken))
            /\ fetch.cpc \in {"recvDone", "returned"} =>
                  (fetch.queue = <<>> /\ fetch.sent = ToSend)

\* the producer is about to send its completion value
SendingDone == InFetch /\ fetch.ppc = "done"

ProducerEnded == InFetch /\ fetch.ppc = "end"

ProducerWaits ==
    /\ InFetch /\ fetch.ppc = "send"
    /\ fetch.sent < ToSend /\ Len(fetch.queue) = QueueCap

-----------------------------------------------------------------------------
(* INBOX *)

\* C40: in every reachable state of the mailbox state model a mailbox named INBOX
\* exists, after any sequence of CreateMailbox, DeleteMailbox and RenameMailbox, also
\* a rename of INBOX to another name, of another mailbox onto INBOX and of INBOX to
\* INBOX.
C40_InboxExists == "INBOX" \in DOMAIN mailboxes

\* CreateMailbox and DeleteMailbox leave an INBOX where there is one, and so does a
\* rename that does not name INBOX as the mailbox to rename
InboxSurvivesOtherOps ==
    (/\ IsMailboxOp
     /\ "INBOX" \in DOMAIN last.before
     /\ last.op = "RenameMailbox" => last.folder # "INBOX")
        => "INBOX" \in DOMAIN last.after

=============================================================================
